---- MODULE Spec2Model ----
(***************************************************************************)
(* Multi-object tracking engine of src/OCCLUSION: the Car entity           *)
(* (car.py) and the three trackers of improved_tracker.py (Tracker,        *)
(* OcclusionTracker, KalmanTracker), one update() call per frame.          *)
(*                                                                         *)
(* Units.  Boxes are integer pixel tuples <<x1, y1, x2, y2>>.  A centre    *)
(* 0.5*(x1+x2) may be a half-integer, so every centre, centroid and        *)
(* centre-to-centre delta is held in HALF-PIXELS (value = 2 * pixels).     *)
(* Ratios (IoU, scores) are exact fractions [n, d] with d > 0.             *)
(***************************************************************************)
EXTENDS Integers, Sequences, FiniteSets, TLC

VARIABLES
    cls,          \* which tracker class this instance is
    tracks,       \* self.tracks : track_id -> Car
    next_id,      \* self._next_id
    frame_count,  \* number of update() calls made (KalmanTracker.frame_count)
    last,         \* what the last update() call did (for the properties)
    seed,         \* which history of calls the instance starts from
    debug         \* self.debug of OcclusionTracker and KalmanTracker

vars == <<cls, tracks, next_id, frame_count, last, seed, debug>>

---------------------------------------------------------------------------
(* Bounds of the model *)

MaxDets == 2        \* detections per frame
MaxCalls == 3       \* update() calls explored after the initial history
ScenarioCalls == 2  \* update() calls explored after a scenario history
ChainLen == 3       \* detections per frame of the fragment-chain frames
WideSearchRadius == 200 \* search_radius of the instance built with a wide radius

(* Construction-time configuration, kept small so that eviction happens *)
max_lost == 2       \* Tracker / KalmanTracker max_lost
buffer_frames == 3  \* OcclusionTracker buffer_frames
LongBuffer == 12    \* buffer_frames of the instance built with a long buffer

---------------------------------------------------------------------------
(* Program constants *)

IouThrNum == 3            \* iou_threshold = 0.3
IouThrDen == 10
MaxCentroids == 50        \* Car.update keeps the last 50 centroids
max_velocity_history == 5 \* Car.max_velocity_history
fragment_iou == 10        \* OcclusionTracker fragment_iou = 0.1, in percent
FragIouNum == 1           \* _merge_fragments: iou_val < 0.05 skips the pair
FragIouDen == 20
AreaRatioNum == 3         \* _merge_fragments: area_ratio > 0.3
AreaRatioDen == 10
FragDistNum == 4          \* _merge_fragments: dist < min_dim * 0.8
FragDistDen == 5
DefaultSearchRadius == 100 \* OcclusionTracker search_radius = 100.0, pixels
skip_frames == 1          \* OcclusionTracker skip_frames
min_match_score == 500000 \* OcclusionTracker min_match_score = 0.50, in millionths
StaticThreshold == 3      \* _is_static threshold = 3.0 pixels
StaticRadiusCap == 40     \* static radius min(search_radius * 0.3, 40.0)
StaticJump == 30          \* a static track cannot jump more than 30 pixels
MinAbsScore == 350000     \* score < 0.35 is rejected, in millionths
Phase2MinHits == 4        \* _match: lost tracks with hits < 4 are skipped
Phase2MaxLost == 10       \* _match: lost tracks with lost > 10 are skipped
P0Pos == 20               \* create_kalman_filter: P[:4,:4] *= 20.0
P0Vel == 100              \* P[4:6,4:6] *= 100.0
P0Scale == 50             \* P[6,6] *= 50.0
QPos == 10                \* Q = 0.1 on position and size, in hundredths
QVel == 500               \* Q = 5.0 on velocity, in hundredths
QScale == 50              \* Q = 0.5 on scale velocity, in hundredths
RPos == 500               \* R = 5.0 on position, in hundredths
RSize == 1500             \* R = 15.0 on size, in hundredths
PredMinSize == 10         \* predicted size is clamped to [10, 1000]
PredMaxSize == 1000
PhysBase == 150           \* max_physical_dist = min(150 + lost * 15, 400)
PhysPerLost == 15
PhysCap == 400
SizeRatioMax == 3         \* size ratio above 3.0 is rejected
mahalanobis_threshold == 350 \* KalmanTracker mahalanobis_threshold = 3.5, in hundredths
RelaxAfterLost == 15      \* threshold_multiplier = 1.5 when track.lost > 15
KalmanPhase2MinHits == 2  \* FASE 2 skips lost tracks with hits < 2
HybridMinHits == 3        \* the hybrid box is used when track.hits >= 3

TrackerMinHits == 1       \* Tracker min_hits = 1
OcclusionMinHits == 1     \* OcclusionTracker min_hits = 1
KalmanMinHits == 3        \* KalmanTracker min_hits = 3

\* self.min_hits of this instance
min_hits ==
    CASE cls = "Tracker" -> TrackerMinHits
      [] cls = "OcclusionTracker" -> OcclusionMinHits
      [] cls = "KalmanTracker" -> KalmanMinHits

\* OcclusionTracker search_radius of this instance, pixels: the default, or
\* the wide radius for the instance of the "parked_wide" history
search_radius ==
    IF seed = "parked_wide" THEN WideSearchRadius ELSE DefaultSearchRadius

\* self.buffer_frames of this instance: buffer_frames, or the long buffer
\* for the instance of the "abandoned" history
BufferOf(s) == IF s = "abandoned" THEN LongBuffer ELSE buffer_frames

self_buffer_frames == BufferOf(seed)

---------------------------------------------------------------------------
(* Generic helpers *)

Max(a, b) == IF a >= b THEN a ELSE b
Min(a, b) == IF a <= b THEN a ELSE b
Abs(a) == IF a >= 0 THEN a ELSE -a

Frac(n, d) == [n |-> n, d |-> d]
FLess(a, b) == a.n * b.d < b.n * a.d
FEq(a, b) == a.n * b.d = b.n * a.d
FLeq(a, b) == a.n * b.d <= b.n * a.d

Range(s) == {s[i] : i \in 1..Len(s)}

\* the keys of a dict in insertion order: ids only grow, so ascending order
RECURSIVE SortedSeq(_)
SortedSeq(S) ==
    IF S = {} THEN <<>>
    ELSE LET m == CHOOSE x \in S : \A y \in S : x <= y
         IN <<m>> \o SortedSeq(S \ {m})

\* s[:n] where s[-n:] is meant
FirstN(s, n) == IF Len(s) <= n THEN s ELSE SubSeq(s, 1, n)

\* the last n entries of a list: s[-n:]
LastN(s, n) == IF Len(s) <= n THEN s ELSE SubSeq(s, Len(s) - n + 1, Len(s))

Restrict(f, S) == [x \in S |-> f[x]]

---------------------------------------------------------------------------
(* utilities.py *)

\* inter over the area of boxA alone
iou_over_first_area(boxA, boxB) ==
    LET inter == Max(0, Min(boxA[3], boxB[3]) - Max(boxA[1], boxB[1]))
                 * Max(0, Min(boxA[4], boxB[4]) - Max(boxA[2], boxB[2]))
    IN IF inter = 0 THEN Frac(0, 1)
       ELSE Frac(inter, (boxA[3] - boxA[1]) * (boxA[4] - boxA[2]))

\* iou(boxA, boxB) as the exact fraction inter / union (0 when inter = 0).
\* The value returned is inter / (union + 1e-9): the 1e-9 is below float32
\* resolution in the IoU matrices, and IouAtLeast accounts for it where the
\* float64 value is compared with a threshold.
iou(boxA, boxB) ==
    LET xA == Max(boxA[1], boxB[1])
        yA == Max(boxA[2], boxB[2])
        xB == Min(boxA[3], boxB[3])
        yB == Min(boxA[4], boxB[4])
        inter_w == Max(0, xB - xA)
        inter_h == Max(0, yB - yA)
        inter == inter_w * inter_h
        areaA == (boxA[3] - boxA[1]) * (boxA[4] - boxA[2])
        areaB == (boxB[3] - boxB[1]) * (boxB[4] - boxB[2])
    IN IF inter = 0 THEN Frac(0, 1)
       ELSE Frac(inter, areaA + areaB - inter)

\* bbox_center(b) in half-pixels: 2 * (0.5*(x1+x2), 0.5*(y1+y2))
bbox_center(b) == <<b[1] + b[3], b[2] + b[4]>>

---------------------------------------------------------------------------
(* car.py : Car *)

\* Optional values: <<>> is None, <<v>> is a present value v
None == <<>>
Some(v) == <<v>>

\* Car(track_id=..., bbox=..., confidence=...) with the dataclass defaults
NewCar(track_id, bbox, conf) ==
    [ track_id |-> track_id,
      bbox |-> bbox,
      confidence |-> conf,
      hits |-> 1,
      lost |-> 0,
      centroids |-> <<>>,
      predicted_bbox |-> None,
      velocity_history |-> <<>>,
      is_static |-> FALSE,
      kalman_filter |-> None ]

\* Car.update, velocity part: the displacement since the previous centroid
\* is appended to velocity_history, which keeps its newest entries
velocity_after(car, bbox) ==
    LET new_center == bbox_center(bbox)
    IN IF car.centroids # <<>>
       THEN LET old_center == car.centroids[Len(car.centroids)]
                v == <<new_center[1] - old_center[1],
                       new_center[2] - old_center[2]>>
                app == Append(car.velocity_history, v)
            IN IF Len(app) > max_velocity_history THEN Tail(app) ELSE app
       ELSE car.velocity_history

\* Car.update, centroid part: append the new centre, keep the newest 50
centroids_after(car, bbox) ==
    LET cs == Append(car.centroids, bbox_center(bbox))
    IN IF Len(cs) > MaxCentroids THEN LastN(cs, MaxCentroids) ELSE cs

\* Car.update without "self.hits += 1"
CarUpdateNoHit(car, bbox, conf) ==
    [car EXCEPT
       !.velocity_history = velocity_after(car, bbox),
       !.bbox = bbox,
       !.confidence = conf,
       !.lost = 0,
       !.centroids = centroids_after(car, bbox),
       !.predicted_bbox = None]

\* Car.update without "self.predicted_bbox = None"
CarUpdateKeepPrediction(car, bbox, conf) ==
    [car EXCEPT
       !.velocity_history = velocity_after(car, bbox),
       !.bbox = bbox,
       !.confidence = conf,
       !.hits = car.hits + 1,
       !.lost = 0,
       !.centroids = centroids_after(car, bbox)]

\* Car.update(frame, bbox, conf)
CarUpdate(car, bbox, conf) ==
    [car EXCEPT
       !.velocity_history = velocity_after(car, bbox),
       !.bbox = bbox,
       !.confidence = conf,
       !.hits = car.hits + 1,
       !.lost = 0,
       !.centroids = centroids_after(car, bbox),
       !.predicted_bbox = None]

\* Car.mark_missed without "self.lost += 1"
mark_missed_noop(car) == car

\* Car.mark_missed()
mark_missed(car) == [car EXCEPT !.lost = car.lost + 1]

---------------------------------------------------------------------------
(* improved_tracker.py : Tracker *)

\* Tracker._create_track without "self._next_id += 1"
create_track_reuse(trk, nid, bbox, conf) ==
    LET t == [NewCar(nid, bbox, conf) EXCEPT !.centroids = <<bbox_center(bbox)>>]
    IN [tracks |-> (nid :> t) @@ trk, next_id |-> nid]

\* Tracker._create_track run before the aging step of update(): the new track
\* is marked missed in the call that creates it
create_track_before_aging(trk, nid, bbox, conf) ==
    LET t == [NewCar(nid, bbox, conf) EXCEPT !.centroids = <<bbox_center(bbox)>>]
    IN [tracks |-> (nid :> mark_missed(t)) @@ trk, next_id |-> nid + 1]

\* Tracker._create_track: the table and the id counter after creating a track
create_track(trk, nid, bbox, conf) ==
    LET t == [NewCar(nid, bbox, conf) EXCEPT !.centroids = <<bbox_center(bbox)>>]
    IN [tracks |-> (nid :> t) @@ trk, next_id |-> nid + 1]

\* the IoU matrix [num_tracks x num_dets] of boxes tb[ti] against detections
IouMatrix(tb, detections) ==
    [p \in (1..Len(tb)) \X (1..Len(detections)) |->
        iou(tb[p[1]], detections[p[2]].bbox)]

\* np.unravel_index(np.argmax(mat), mat.shape): first maximum in row-major order
ArgMax(mat) ==
    CHOOSE p \in DOMAIN mat :
        /\ \A q \in DOMAIN mat : ~FLess(mat[p], mat[q])
        /\ \A q \in DOMAIN mat :
              FEq(mat[q], mat[p]) =>
                 ~(q[1] < p[1] \/ (q[1] = p[1] /\ q[2] < p[2]))

MinusOne == Frac(-1, 1)
iou_threshold == Frac(IouThrNum, IouThrDen)

\* the greedy loop of Tracker._match; assignments are pairs <<ti, di>>
RECURSIVE TrackerGreedy(_, _, _, _)
TrackerGreedy(iou_mat, assignments, used_tracks, used_dets) ==
    LET p == ArgMax(iou_mat)
        best == iou_mat[p]
    IN IF FLess(best, iou_threshold)
       THEN [assignments |-> assignments, used_tracks |-> used_tracks,
             used_dets |-> used_dets]
       ELSE IF p[1] \in used_tracks \/ p[2] \in used_dets
       THEN TrackerGreedy([iou_mat EXCEPT ![p] = MinusOne],
                          assignments, used_tracks, used_dets)
       ELSE TrackerGreedy(
               [q \in DOMAIN iou_mat |->
                   IF q[1] = p[1] \/ q[2] = p[2] THEN MinusOne ELSE iou_mat[q]],
               assignments \cup {p},
               used_tracks \cup {p[1]},
               used_dets \cup {p[2]})

\* a set of <<ti, di>> pairs as the dict {track_id -> det_idx}
AsDict(pairs, track_ids) ==
    [tid \in {track_ids[p[1]] : p \in pairs} |->
        (CHOOSE p \in pairs : track_ids[p[1]] = tid)[2]]

\* the three values Tracker._match returns, from the result g of the loop
MatchResult(track_ids, detections, g) ==
    [assignments |-> AsDict(g.assignments, track_ids),
     unassigned_tracks |->
         {track_ids[i] : i \in (1..Len(track_ids)) \ g.used_tracks},
     unassigned_dets |-> (1..Len(detections)) \ g.used_dets]

\* Tracker._match(detections) for the key list track_ids
MatchTracks(trk, track_ids, detections) ==
    IF track_ids = <<>> \/ detections = <<>>
    THEN [assignments |-> <<>>,
          unassigned_tracks |-> Range(track_ids),
          unassigned_dets |-> 1..Len(detections)]
    ELSE MatchResult(track_ids, detections,
            TrackerGreedy(IouMatrix([i \in 1..Len(track_ids) |-> trk[track_ids[i]].bbox],
                                    detections), {}, {}, {}))

\* Tracker._match(detections)
TrackerMatch(trk, detections) == MatchTracks(trk, SortedSeq(DOMAIN trk), detections)

\* steps 2 and 3 of update(): matched tracks take detections[det_idx],
\* the tracks listed as unassigned are marked missed
ApplyMatches(trk, assignments, un_tracks, detections) ==
    [tid \in DOMAIN trk |->
        IF tid \in DOMAIN assignments
        THEN CarUpdate(trk[tid], detections[assignments[tid]].bbox,
                       detections[assignments[tid]].conf)
        ELSE IF tid \in un_tracks THEN mark_missed(trk[tid])
        ELSE trk[tid]]

\* step 4 of update(): one _create_track per index of un_dets, in ascending order
RECURSIVE CreateTracks(_, _, _, _)
CreateTracks(trk, nid, detections, un_dets) ==
    IF un_dets = <<>> THEN [tracks |-> trk, next_id |-> nid]
    ELSE LET c == create_track(trk, nid, detections[Head(un_dets)].bbox,
                               detections[Head(un_dets)].conf)
         IN CreateTracks(c.tracks, c.next_id, detections, Tail(un_dets))

\* step 5 of update() with "lost >= limit" for "lost > limit"
DeleteExpiredAtLimit(trk, limit) ==
    Restrict(trk, {tid \in DOMAIN trk : ~(trk[tid].lost >= limit)})

\* step 5 of update(): delete the tracks with lost > limit
DeleteExpired(trk, limit) ==
    Restrict(trk, {tid \in DOMAIN trk : ~(trk[tid].lost > limit)})

\* what one update() call did, kept for the properties
CallRecord(pre, pre_id, raw, seen, assignments, phase1, un_dets, post, post_id, pred) ==
    [ pre |-> pre,                  \* the table at the start of the call
      pre_id |-> pre_id,            \* _next_id at the start of the call
      detections |-> raw,           \* the list passed to update()
      matched_on |-> seen,          \* the list the matcher worked on
      assignments |-> assignments,  \* committed {track_id -> det_idx}, both phases
      phase1 |-> phase1,            \* the part committed by Phase 1
      un_dets |-> un_dets,          \* detection indices left unassigned
      created |-> pre_id .. (post_id - 1),
      deleted |-> (DOMAIN pre \cup (pre_id .. (post_id - 1))) \ DOMAIN post,
      pred |-> pred,                \* boxes Phase 1 compared (track_id -> box)
      corr |-> 100,                 \* histogram correlation the frame gave, percent
      printed |-> {},               \* the diagnostic lines the call printed
      raised |-> FALSE ]            \* the call ended in an exception

\* the record before any call
NoCall == [pre |-> <<>>, pre_id |-> 1, detections |-> <<>>, matched_on |-> <<>>,
           assignments |-> <<>>, phase1 |-> <<>>, un_dets |-> {}, created |-> {},
           deleted |-> {}, pred |-> <<>>, corr |-> 100, printed |-> {},
           raised |-> FALSE]

\* what update() returns and leaves behind: the table, the id counter and
\* the record of the call
Outcome(pre, pre_id, raw, seen, assignments, phase1, un_dets, post, post_id, pred) ==
    [tracks |-> post, next_id |-> post_id, raised |-> FALSE,
     last |-> CallRecord(pre, pre_id, raw, seen, assignments, phase1, un_dets,
                         post, post_id, pred)]

\* the end of update(): c is the table and counter after the creation step,
\* then the tracks past the limit are deleted and the table is returned
Finish(pre, pre_id, raw, seen, assignments, phase1, un_dets, c, limit, pred) ==
    Outcome(pre, pre_id, raw, seen, assignments, phase1, un_dets,
            DeleteExpired(c.tracks, limit), c.next_id, pred)

\* the boxes Phase 1 compares in Tracker and OcclusionTracker: track.bbox
CurrentBoxes(trk) == [tid \in DOMAIN trk |-> trk[tid].bbox]

\* Tracker.update after step 1: m is what _match returned
TrackerApply(trk, nid, detections, m) ==
    Finish(trk, nid, detections, detections, m.assignments, m.assignments,
           m.unassigned_dets,
           CreateTracks(ApplyMatches(trk, m.assignments, m.unassigned_tracks, detections),
                        nid, detections, SortedSeq(m.unassigned_dets)),
           max_lost, CurrentBoxes(trk))

\* Tracker.update(frame, detections)
TrackerUpdate(trk, nid, detections) ==
    TrackerApply(trk, nid, detections, TrackerMatch(trk, detections))

---------------------------------------------------------------------------
(* improved_tracker.py : OcclusionTracker, geometry helpers *)

\* floor of the square root, by bisection
RECURSIVE SqrtBetween(_, _, _)
SqrtBetween(n, lo, hi) ==
    IF hi - lo <= 1 THEN lo
    ELSE LET mid == (lo + hi) \div 2
         IN IF mid * mid <= n THEN SqrtBetween(n, mid, hi)
            ELSE SqrtBetween(n, lo, mid)

ISqrt(n) == SqrtBetween(n, 0, Min(n, 46340) + 1)

\* math.hypot(dx, dy), in the unit of its arguments: exact for axis-aligned
\* and Pythagorean displacements, rounded down to a whole unit otherwise
hypot(dx, dy) ==
    IF dy = 0 THEN Abs(dx)
    ELSE IF dx = 0 THEN Abs(dy)
    ELSE ISqrt(dx * dx + dy * dy)

\* the smallest and the largest of a non-empty set of integers
SetMin(S) == CHOOSE x \in S : \A y \in S : x <= y
SetMax(S) == CHOOSE x \in S : \A y \in S : x >= y

\* the merge test of _merge_fragments for the anchor bbox1 and a later bbox2.
\* iou() < 0.05 is taken on the float64 value inter/(union + 1e-9), which is
\* below 1/20 also when inter/union is exactly 1/20.
IsFragment(bbox1, bbox2) ==
    LET iou_val == iou(bbox1, bbox2)
        c1 == bbox_center(bbox1)
        c2 == bbox_center(bbox2)
        \* math.hypot(c1 - c2) squared, in half-pixels
        dist_sq == (c1[1] - c2[1]) * (c1[1] - c2[1]) + (c1[2] - c2[2]) * (c1[2] - c2[2])
        area1 == (bbox1[3] - bbox1[1]) * (bbox1[4] - bbox1[2])
        area2 == (bbox2[3] - bbox2[1]) * (bbox2[4] - bbox2[2])
        min_dim == SetMin({bbox1[3] - bbox1[1], bbox1[4] - bbox1[2],
                           bbox2[3] - bbox2[1], bbox2[4] - bbox2[2]})
    IN /\ ~(iou_val.n * FragIouDen <= FragIouNum * iou_val.d)
       \* area_ratio > 0.3
       /\ AreaRatioDen * Min(area1, area2) > AreaRatioNum * Max(area1, area2)
       \* dist < min_dim * 0.8, with dist in half-pixels
       /\ min_dim > 0
       /\ FragDistDen * FragDistDen * dist_sq
             < (2 * FragDistNum * min_dim) * (2 * FragDistNum * min_dim)

\* the inner loop over j of _merge_fragments: the indices merged into anchor i
RECURSIVE FragmentsOf(_, _, _, _, _)
FragmentsOf(detections, i, j, used, fragments) ==
    IF j > Len(detections) THEN [used |-> used, fragments |-> fragments]
    ELSE IF j <= i \/ j \in used
    THEN FragmentsOf(detections, i, j + 1, used, fragments)
    ELSE IF IsFragment(detections[i].bbox, detections[j].bbox)
    THEN FragmentsOf(detections, i, j + 1, used \cup {j}, Append(fragments, j))
    ELSE FragmentsOf(detections, i, j + 1, used, fragments)

\* the first fragment alone, for the merged detection
AnchorDetection(detections, idx) == detections[SetMin(idx)]

\* the detection that replaces the fragments idx: their bounding box and
\* their highest confidence
MergedDetection(detections, idx) ==
    [bbox |-> << SetMin({detections[k].bbox[1] : k \in idx}),
                 SetMin({detections[k].bbox[2] : k \in idx}),
                 SetMax({detections[k].bbox[3] : k \in idx}),
                 SetMax({detections[k].bbox[4] : k \in idx}) >>,
     conf |-> SetMax({detections[k].conf : k \in idx})]

\* the outer loop over i of _merge_fragments
RECURSIVE MergeLoop(_, _, _, _)
MergeLoop(detections, i, used, merged) ==
    IF i > Len(detections) THEN merged
    ELSE IF i \in used THEN MergeLoop(detections, i + 1, used, merged)
    ELSE LET f == FragmentsOf(detections, i, 1, used, <<i>>)
             idx == Range(f.fragments)
         IN IF Len(f.fragments) > 1
            THEN MergeLoop(detections, i + 1, f.used \cup {i},
                           Append(merged, MergedDetection(detections, idx)))
            ELSE MergeLoop(detections, i + 1, f.used \cup {i},
                           Append(merged, detections[i]))

\* OcclusionTracker._merge_fragments(detections)
merge_fragments(detections) ==
    IF Len(detections) <= 1 \/ fragment_iou <= 0 THEN detections
    ELSE MergeLoop(detections, 1, {}, <<>>)

---------------------------------------------------------------------------
(* improved_tracker.py : OcclusionTracker, motion model and match score *)
(* Positions predicted by the motion model are averages over 1..4 steps,  *)
(* so they are held in TICKS: 1 half-pixel = 12 ticks, 1 pixel = 24 ticks. *)
(* Scores are held in millionths (component scores in ten-thousandths).    *)

Tick == 12 * 2

\* the sum over i of f(recent[i], recent[i-1]) for i = 2..Len(recent)
RECURSIVE SumSteps(_, _, _)
SumSteps(recent, i, axis) ==
    IF i > Len(recent) THEN 0
    ELSE IF axis = 0
    THEN hypot(recent[i][1] - recent[i-1][1], recent[i][2] - recent[i-1][2])
         + SumSteps(recent, i + 1, axis)
    ELSE (recent[i][axis] - recent[i-1][axis]) + SumSteps(recent, i + 1, axis)

\* OcclusionTracker._is_static(track, threshold=3.0)
is_static(track) ==
    IF Len(track.centroids) < 4 THEN FALSE
    ELSE LET n == Min(6, Len(track.centroids))
             recent == LastN(track.centroids, n)
             total_dist == SumSteps(recent, 2, 0)              \* half-pixels
         \* avg_movement = total_dist / (len(recent) - 1) < threshold
         IN total_dist < 2 * StaticThreshold * (Len(recent) - 1)

\* OcclusionTracker._predict_position(track, frames_ahead), in ticks
predict_position(track, frames_ahead) ==
    LET cs == track.centroids
    IN IF Len(cs) < 2
       THEN IF cs # <<>> THEN <<12 * cs[Len(cs)][1], 12 * cs[Len(cs)][2]>>
            ELSE <<0, 0>>
       ELSE IF is_static(track)
       THEN <<12 * cs[Len(cs)][1], 12 * cs[Len(cs)][2]>>
       ELSE LET n == Min(5, Len(cs))
                recent == LastN(cs, n)
                vx_total == SumSteps(recent, 2, 1)
                vy_total == SumSteps(recent, 2, 2)
            \* last + (v_total / (len(recent) - 1)) * frames_ahead
            IN << 12 * cs[Len(cs)][1] + (12 * vx_total * frames_ahead) \div (Len(recent) - 1),
                  12 * cs[Len(cs)][2] + (12 * vy_total * frames_ahead) \div (Len(recent) - 1) >>

\* frames_ahead without the skipped frames: max(1, track.lost)
FramesAheadNoSkip(track) == Max(1, track.lost)

\* frames_ahead = max(1, track.lost * (self.skip_frames + 1))
FramesAhead(track) == Max(1, track.lost * (skip_frames + 1))

\* the Phase-2 distance-gate radius of _compute_match_score, in ticks
dynamic_radius(track) ==
    IF is_static(track)
    THEN Min((Tick * search_radius * 3) \div 10, Tick * StaticRadiusCap)
    ELSE IF track.lost = 1 THEN (Tick * search_radius * 8) \div 10
    ELSE IF track.lost = 2 THEN Tick * search_radius
    ELSE (Tick * search_radius * Min(140, 100 + track.lost * 8)) \div 100

Rejected == [raised |-> FALSE, score |-> 0]
Raised == [raised |-> TRUE, score |-> 0]

\* a ratio max(a,b)/min(a,b) in ten-thousandths (min(a,b) # 0)
Ratio(a, b) == (10000 * Max(a, b)) \div Min(a, b)

\* prev_speed of _compute_match_score, in ticks per frame (two centroids or more)
PrevSpeed(cs, nc) ==
    IF nc >= 3
    THEN 6 * hypot(cs[nc][1] - cs[nc-2][1], cs[nc][2] - cs[nc-2][2])
    ELSE 12 * hypot(cs[nc][1] - cs[nc-1][1], cs[nc][2] - cs[nc-1][2])

\* max_speed_change of _compute_match_score, doubled
MaxSpeedChange2(track) ==
    IF track.hits >= 8 THEN 4 ELSE IF track.hits >= 5 THEN 5 ELSE 6

\* the speed gate without the rule "implied_speed < prev_speed * 0.3"
SpeedChangeRejectAccelerationOnly(track, dist, frames_ahead, prev_speed) ==
    /\ prev_speed > Tick
    /\ 2 * dist > prev_speed * MaxSpeedChange2(track) * Max(1, frames_ahead)

\* the acceleration and deceleration rules of the speed gate, for a track
\* with two centroids or more: implied_speed = dist / max(1, frames_ahead)
SpeedChangeReject(track, dist, frames_ahead, prev_speed) ==
    /\ prev_speed > Tick
    /\ \/ 2 * dist > prev_speed * MaxSpeedChange2(track) * Max(1, frames_ahead)
       \/ /\ 10 * dist < 3 * prev_speed * Max(1, frames_ahead)
          /\ prev_speed > 5 * Tick

\* the speed gate without "if is_static and dist > 30"
speed_gate_without_static_jump(track, dist, frames_ahead) ==
    /\ Len(track.centroids) >= 2
    /\ SpeedChangeReject(track, dist, frames_ahead,
                         PrevSpeed(track.centroids, Len(track.centroids)))

\* 2. the speed-coherence gate of _compute_match_score: does it reject a
\* detection dist ticks from the predicted position?
speed_gate(track, dist, frames_ahead) ==
    /\ Len(track.centroids) >= 2
    /\ \/ SpeedChangeReject(track, dist, frames_ahead,
                            PrevSpeed(track.centroids, Len(track.centroids)))
       \/ is_static(track) /\ dist > StaticJump * Tick

\* a score that accepts every pair: none of the gates is applied
ungated_match_score(track, det_bbox, corr) == [raised |-> FALSE, score |-> 1000000]

\* OcclusionTracker._compute_match_score(frame, track, det_bbox).
\* corr is cv2.compareHist(track.hsv_hist, det_hist) in percent, decided by
\* the pixels of the frame.  raised = TRUE: the call ends in ZeroDivisionError.
compute_match_score(track, det_bbox, corr) ==
    LET det_center == bbox_center(det_bbox)
        frames_ahead == FramesAhead(track)
        predicted_pos == predict_position(track, frames_ahead)
        dist == hypot(12 * det_center[1] - predicted_pos[1],
                      12 * det_center[2] - predicted_pos[2])          \* ticks
        radius == dynamic_radius(track)
        cs == track.centroids
        nc == Len(cs)
        speed_reject == speed_gate(track, dist, frames_ahead)
        dist_score == 10000 - (10000 * dist) \div radius
        \* 3. appearance
        app_score == Max(0, (corr + 100) * 50)
        app_reject == track.hits >= 5 /\ corr < -30
        \* 4. direction, over the last min(4, n) centroids, in half-pixels
        n4 == Min(4, nc)
        prev_vx == cs[nc][1] - cs[nc - n4 + 1][1]
        prev_vy == cs[nc][2] - cs[nc - n4 + 1][2]
        dprev_speed == hypot(prev_vx, prev_vy)
        curr_vx == det_center[1] - cs[nc][1]
        curr_vy == det_center[2] - cs[nc][2]
        curr_speed == hypot(curr_vx, curr_vy)
        dot == prev_vx * curr_vx + prev_vy * curr_vy
        clear_motion == nc >= 3 /\ dprev_speed > 4 /\ curr_speed > 4
        min_cos == IF track.hits >= 8 THEN 259
                   ELSE IF track.hits >= 5 THEN 87 ELSE -174          \* thousandths
        dir_reject == clear_motion /\ 1000 * dot < min_cos * dprev_speed * curr_speed
        dir_score == IF clear_motion
                     THEN Max(0, ((10000 * dot) \div (dprev_speed * curr_speed) + 10000) \div 2)
                     ELSE 5000
        perp_reject ==
            /\ nc >= 3
            /\ dprev_speed > 10
            \* perp_dist = |-uy*dx + ux*dy| > search_radius * 0.6
            /\ 10 * Abs(-prev_vy * curr_vx + prev_vx * curr_vy)
                  > 12 * search_radius * dprev_speed
        \* 5. size
        tw == track.bbox[3] - track.bbox[1]
        th == track.bbox[4] - track.bbox[2]
        dw == det_bbox[3] - det_bbox[1]
        dh == det_bbox[4] - det_bbox[2]
        sized == tw > 0 /\ th > 0
        max_ratio == IF track.hits >= 5 THEN 16000 ELSE 18000
        size_score == IF sized
                      THEN 10000 - (Abs(Ratio(tw, dw) - 10000)
                                    + Abs(Ratio(th, dh) - 10000)) \div 4
                      ELSE 5000
    IN IF dist > radius THEN Rejected
       ELSE IF speed_reject THEN Rejected
       ELSE IF app_reject THEN Rejected
       ELSE IF dir_reject THEN Rejected
       ELSE IF perp_reject THEN Rejected
       ELSE IF sized /\ (Min(tw, dw) = 0 \/ Min(th, dh) = 0) THEN Raised
       ELSE IF sized /\ (Ratio(tw, dw) > max_ratio \/ Ratio(th, dh) > max_ratio)
       THEN Rejected
       ELSE LET score == 45 * dist_score + 25 * app_score
                         + 20 * dir_score + 10 * size_score
            IN IF score < MinAbsScore THEN Rejected
               ELSE [raised |-> FALSE, score |-> score]

---------------------------------------------------------------------------
(* improved_tracker.py : OcclusionTracker._match and update *)

\* the Phase-1 greedy loop of OcclusionTracker._match: pairs <<ti, di>>
RECURSIVE OcclusionGreedy(_, _)
OcclusionGreedy(iou_mat, pairs) ==
    LET p == ArgMax(iou_mat)
        best_iou == iou_mat[p]
    IN IF FLess(best_iou, iou_threshold) THEN pairs
       ELSE OcclusionGreedy(
               [q \in DOMAIN iou_mat |->
                   IF q[1] = p[1] \/ q[2] = p[2] THEN MinusOne ELSE iou_mat[q]],
               pairs \cup {p})

\* the acceptance threshold of a Phase-2 pair, in millionths
Phase2Threshold(track) ==
    IF is_static(track) THEN (min_match_score * 85) \div 100
    ELSE IF track.lost = 1 THEN (min_match_score * 90) \div 100
    ELSE IF track.lost = 2 THEN (min_match_score * 95) \div 100
    ELSE (min_match_score * 105) \div 100

Bit(b) == IF b THEN 1 ELSE 0

\* the Phase-2 scoring loop without "if track.lost > 10: continue"
ScoresAnyLost(trk, lost_ids, detections, used_dets, corr) ==
    { [tid |-> q[1], di |-> q[2],
       result |-> compute_match_score(trk[q[1]], detections[q[2]].bbox, corr)] :
      q \in { q \in lost_ids \X ((1..Len(detections)) \ used_dets) :
                ~(trk[q[1]].hits < Phase2MinHits) } }

\* the Phase-2 scoring loop without "if track.hits < 4: continue"
ScoresAnyHits(trk, lost_ids, detections, used_dets, corr) ==
    { [tid |-> q[1], di |-> q[2],
       result |-> compute_match_score(trk[q[1]], detections[q[2]].bbox, corr)] :
      q \in { q \in lost_ids \X ((1..Len(detections)) \ used_dets) :
                ~(trk[q[1]].lost > Phase2MaxLost) } }

\* the Phase-2 scoring loop of _match: _compute_match_score for every lost
\* track that passes the hits and lost filters and every detection Phase 1
\* left unused
Scores(trk, lost_ids, detections, used_dets, corr) ==
    { [tid |-> q[1], di |-> q[2],
       result |-> compute_match_score(trk[q[1]], detections[q[2]].bbox, corr)] :
      q \in { q \in lost_ids \X ((1..Len(detections)) \ used_dets) :
                /\ ~(trk[q[1]].hits < Phase2MinHits)
                /\ ~(trk[q[1]].lost > Phase2MaxLost) } }

\* the Phase-2 candidates of _match: one tuple
\* (priority = (score, hits >= 8, -lost, is_static), score, tid, di) per
\* accepted pair, as the sort key <<score, hits>=8, -lost, is_static, tid, di>>
Candidates(trk, scores) ==
    { <<s.result.score, Bit(trk[s.tid].hits >= 8), -trk[s.tid].lost,
        Bit(is_static(trk[s.tid])), s.tid, s.di>> :
      s \in { s \in scores : /\ s.result.score # 0
                             /\ s.result.score >= Phase2Threshold(trk[s.tid]) } }

\* does _compute_match_score raise for a pair Phase 2 scores?
Phase2Raises(scores) == \E s \in scores : s.result.raised

\* tuple comparison a > b of Python, on keys of equal length
RECURSIVE TupleGreater(_, _, _)
TupleGreater(a, b, i) ==
    IF i > Len(a) THEN FALSE
    ELSE IF a[i] # b[i] THEN a[i] > b[i]
    ELSE TupleGreater(a, b, i + 1)

\* candidates.sort(reverse=True)
RECURSIVE SortReverse(_)
SortReverse(S) ==
    IF S = {} THEN <<>>
    ELSE LET top == CHOOSE c \in S : \A d \in S \ {c} : TupleGreater(c, d, 1)
         IN <<top>> \o SortReverse(S \ {top})

\* the Phase-2 commit loop over the sorted candidates
RECURSIVE CommitCandidates(_, _, _)
CommitCandidates(cands, assignments, used_dets) ==
    IF cands = <<>> THEN [assignments |-> assignments, used_dets |-> used_dets]
    ELSE LET tid == Head(cands)[5]
             di == Head(cands)[6]
         IN IF tid \in DOMAIN assignments \/ di \in used_dets
            THEN CommitCandidates(Tail(cands), assignments, used_dets)
            ELSE CommitCandidates(Tail(cands), (tid :> di) @@ assignments,
                                  used_dets \cup {di})

\* the three values OcclusionTracker._match returns (and, for the properties,
\* the list it matched on and the Phase-1 part), phase2 being the result of
\* the commit loop
MatchReturn(trk, detections, phase1, phase2, raised) ==
    [assignments |-> phase2.assignments,
     phase1 |-> phase1,
     unassigned_tracks |-> {tid \in DOMAIN trk : tid \notin DOMAIN phase2.assignments},
     unassigned_dets |-> (1..Len(detections)) \ phase2.used_dets,
     detections |-> detections,
     raised |-> raised]

\* Phase 2 of _match (an empty lost_tracks gives no scores and no candidates)
MatchLost(trk, detections, phase1, used1, scores) ==
    MatchReturn(trk, detections, phase1,
                CommitCandidates(SortReverse(Candidates(trk, scores)), phase1, used1),
                Phase2Raises(scores))

\* _match with lost_tracks holding every track, not only those with lost > 0
MatchActiveAllTracks(trk, detections, corr, track_ids, pairs1) ==
    MatchLost(trk, detections, AsDict(pairs1, track_ids), {p[2] : p \in pairs1},
              Scores(trk, DOMAIN trk, detections, {p[2] : p \in pairs1}, corr))

\* _match after Phase 1 committed the pairs pairs1 of <<ti, di>>
MatchActive(trk, detections, corr, track_ids, pairs1) ==
    MatchLost(trk, detections, AsDict(pairs1, track_ids), {p[2] : p \in pairs1},
              Scores(trk, {tid \in DOMAIN trk : trk[tid].lost > 0}, detections,
                     {p[2] : p \in pairs1}, corr))

\* Phase 1 of _match over the active tracks track_ids
Phase1Pairs(trk, track_ids, detections) ==
    IF track_ids # <<>>
    THEN OcclusionGreedy(
            IouMatrix([i \in 1..Len(track_ids) |-> trk[track_ids[i]].bbox], detections),
            {})
    ELSE {}

\* _match on the list returned by _merge_fragments
MatchMerged(trk, detections, corr, track_ids) ==
    MatchActive(trk, detections, corr, track_ids,
                Phase1Pairs(trk, track_ids, detections))

\* OcclusionTracker._match(detections, frame); det indices are indices of the
\* list returned by _merge_fragments
OcclusionMatch(trk, raw, corr) ==
    IF raw = <<>>
    THEN [assignments |-> <<>>, phase1 |-> <<>>, unassigned_tracks |-> DOMAIN trk,
          unassigned_dets |-> {}, detections |-> raw, raised |-> FALSE]
    ELSE MatchMerged(trk, merge_fragments(raw), corr,
                     SortedSeq({tid \in DOMAIN trk : trk[tid].lost = 0}))

\* OcclusionTracker.update after _match returned m (or raised), on an instance
\* with self.buffer_frames = limit: every det_idx of m is read from the list
\* update() was given
OcclusionApply(trk, nid, detections, m, limit) ==
    IF m.raised
    THEN [tracks |-> trk, next_id |-> nid, raised |-> TRUE,
          last |-> [NoCall EXCEPT !.pre = trk, !.pre_id = nid,
                                  !.detections = detections, !.raised = TRUE]]
    ELSE Finish(trk, nid, detections, m.detections, m.assignments, m.phase1,
                m.unassigned_dets,
                CreateTracks(ApplyMatches(trk, m.assignments, m.unassigned_tracks,
                                          detections),
                             nid, detections, SortedSeq(m.unassigned_dets)),
                limit, CurrentBoxes(trk))

\* the outcome r of a call whose frame gave the histogram correlation corr
OnFrame(r, corr) == [r EXCEPT !.last.corr = corr]

\* OcclusionTracker.update(frame, detections)
OcclusionUpdate(trk, nid, detections, corr, limit) ==
    OnFrame(OcclusionApply(trk, nid, detections, OcclusionMatch(trk, detections, corr),
                           limit),
            corr)

---------------------------------------------------------------------------
(* improved_tracker.py : create_kalman_filter and the filterpy filter *)
(* The filter state x = [x, y, w, h, vx, vy, vw] is held in CENTI-PIXELS   *)
(* and the covariances in hundredths.  F, H, Q, R and the initial P are    *)
(* block-diagonal, so P stays block-diagonal: (x,vx) and (y,vy) share the  *)
(* 2x2 block [[a,b],[b,c]], and the (w,h,vw) block [[s,o,u],[o,s,u],       *)
(* [u,u,q]] is held as p = s+o, m = s-o, u, q.  Gains are rounded to       *)
(* thousandths.                                                            *)

RoundDiv(n, d) == (2 * n + d) \div (2 * d)

\* int(v) of a value v given in hundredths: truncation towards zero
IntOf(v) == IF v >= 0 THEN v \div 100 ELSE -((-v) \div 100)

\* create_kalman_filter(): kf.P; kf.x is set by KalmanTracker._create_track
InitialP == [a |-> 100 * P0Pos, b |-> 0, c |-> 100 * P0Vel,
             p |-> 100 * P0Pos, m |-> 100 * P0Pos, u |-> 0, q |-> 100 * P0Scale]

\* kf.predict(): x = F x, P = F P F' + Q
KfPredict(kf) ==
    LET x == kf.x
        P == kf.P
    IN [x |-> <<x[1] + x[5], x[2] + x[6], x[3] + x[7], x[4] + x[7],
                x[5], x[6], x[7]>>,
        P |-> [a |-> P.a + 2 * P.b + P.c + QPos,
               b |-> P.b + P.c,
               c |-> P.c + QVel,
               p |-> P.p + 4 * P.u + 2 * P.q + QPos,
               m |-> P.m + QPos,
               u |-> P.u + P.q,
               q |-> P.q + QScale]]

\* kf.update(z) with z = [x, y, w, h]: y = z - Hx, S = HPH' + R,
\* K = PH'S^-1, x = x + Ky, P = (I-KH)P(I-KH)' + KRK'
KfUpdate(kf, z) ==
    LET x == kf.x
        P == kf.P
        Sa == P.a + RPos
        K1 == RoundDiv(1000 * P.a, Sa)
        K2 == RoundDiv(1000 * P.b, Sa)
        yx == z[1] - x[1]
        yy == z[2] - x[2]
        lp == P.p + RSize
        lm == P.m + RSize
        Gp == RoundDiv(1000 * P.p, lp)
        Gm == RoundDiv(1000 * P.m, lm)
        Gu == RoundDiv(1000 * P.u, lp)
        ysum == (z[3] - x[3]) + (z[4] - x[4])
        ydiff == (z[3] - x[3]) - (z[4] - x[4])
    IN [x |-> << x[1] + RoundDiv(K1 * yx, 1000),
                 x[2] + RoundDiv(K1 * yy, 1000),
                 x[3] + RoundDiv(Gp * ysum + Gm * ydiff, 2000),
                 x[4] + RoundDiv(Gp * ysum - Gm * ydiff, 2000),
                 x[5] + RoundDiv(K2 * yx, 1000),
                 x[6] + RoundDiv(K2 * yy, 1000),
                 x[7] + RoundDiv(Gu * ysum, 1000) >>,
        P |-> [a |-> RoundDiv(P.a * RPos, Sa),
               b |-> RoundDiv(P.b * RPos, Sa),
               c |-> P.c - RoundDiv(K2 * P.b, 1000),
               p |-> RoundDiv(P.p * RSize, lp),
               m |-> RoundDiv(P.m * RSize, lm),
               u |-> RoundDiv(P.u * RSize, lp),
               q |-> P.q - RoundDiv(2 * Gu * P.u, 1000)]]

\* a detection box as the measurement z = [cx, cy, w, h], in centi-pixels
Measurement(bbox) ==
    LET center == bbox_center(bbox)
    IN <<50 * center[1], 50 * center[2],
         100 * (bbox[3] - bbox[1]), 100 * (bbox[4] - bbox[2])>>

\* KalmanTracker._create_track
kalman_create_track(trk, nid, bbox, conf) ==
    LET c == create_track(trk, nid, bbox, conf)
        z == Measurement(bbox)
        kf == [x |-> <<z[1], z[2], z[3], z[4], 0, 0, 0>>, P |-> InitialP]
    IN [tracks |-> [c.tracks EXCEPT ![nid].kalman_filter = Some(kf)],
        next_id |-> c.next_id]

\* a box (int(px - pw/2), int(py - ph/2), int(px + pw/2), int(py + ph/2))
\* from centre and size in centi-pixels
BoxAround(px, py, pw, ph) ==
    << IntOf(px - pw \div 2), IntOf(py - ph \div 2),
       IntOf(px + pw \div 2), IntOf(py + ph \div 2) >>

\* max(10, min(1000, v)) for a size v in centi-pixels
ClampSize(v) == Max(100 * PredMinSize, Min(100 * PredMaxSize, v))

\* a track after kf.predict() left the filter kf: predicted_bbox is set
Predicted(track, kf) ==
    [track EXCEPT !.kalman_filter = Some(kf),
                  !.predicted_bbox = Some(BoxAround(kf.x[1], kf.x[2],
                                                    ClampSize(kf.x[3]),
                                                    ClampSize(kf.x[4])))]

\* step 1 of KalmanTracker.update: predict every track that has a filter
PredictTrack(track) ==
    IF track.kalman_filter = None THEN track
    ELSE Predicted(track, KfPredict(track.kalman_filter[1]))

Dist(v) == [finite |-> TRUE, value |-> v]
inf == [finite |-> FALSE, value |-> 0]

\* _mahalanobis_distance for the filter kf of a track lost for `lost` frames
\* and the measurement z of the detection, in hundredths.
\* S = HPH' + R is positive definite (R is), so np.linalg.inv never fails.
MahalanobisOf(kf, z, lost) ==
    LET dx == z[1] - kf.x[1]
        dy == z[2] - kf.x[2]
        max_physical_dist == 100 * Min(PhysBase + lost * PhysPerLost, PhysCap)
        too_far == \/ Abs(dx) > max_physical_dist
                   \/ Abs(dy) > max_physical_dist
                   \/ dx * dx + dy * dy > max_physical_dist * max_physical_dist
        det_w == z[3]
        det_h == z[4]
        pred_w == kf.x[3]
        pred_h == kf.x[4]
        \* max(det, pred) / max(1, min(det, pred)) > 3.0
        ratio_w == Max(det_w, pred_w) > SizeRatioMax * Max(100, Min(det_w, pred_w))
        ratio_h == Max(det_h, pred_h) > SizeRatioMax * Max(100, Min(det_h, pred_h))
        Sa == kf.P.a + RPos
        lp == kf.P.p + RSize
        lm == kf.P.m + RSize
        yw == det_w - pred_w
        yh == det_h - pred_h
        \* y' S^-1 y, in hundredths
        dist_sq == (dx * dx + dy * dy) \div Sa
                   + ((yw + yh) * (yw + yh)) \div (2 * lp)
                   + ((yw - yh) * (yw - yh)) \div (2 * lm)
    IN IF too_far THEN inf
       ELSE IF ratio_w \/ ratio_h THEN inf
       ELSE Dist(ISqrt(100 * Max(0, dist_sq)))

\* KalmanTracker._mahalanobis_distance(track, det_bbox)
mahalanobis_distance(track, det_bbox) ==
    IF track.kalman_filter = None THEN inf
    ELSE MahalanobisOf(track.kalman_filter[1], Measurement(det_bbox), track.lost)

---------------------------------------------------------------------------
(* improved_tracker.py : KalmanTracker.update *)

\* the complete assignments of an n x m cost matrix: min(n, m) pairs <<r, c>>,
\* no row and no column twice (what scipy's linear_sum_assignment ranges over)
Assignments(n, m) ==
    IF n <= m
    THEN { {<<r, f[r]>> : r \in 1..n} :
             f \in {g \in [1..n -> 1..m] : \A i, j \in 1..n : i # j => g[i] # g[j]} }
    ELSE { {<<f[c], c>> : c \in 1..m} :
             f \in {g \in [1..m -> 1..n] : \A i, j \in 1..m : i # j => g[i] # g[j]} }

RECURSIVE SumOver(_, _)
SumOver(S, cost) ==
    IF S = {} THEN 0
    ELSE LET e == CHOOSE e \in S : TRUE
         IN cost[e] + SumOver(S \ {e}, cost)

\* linear_sum_assignment(cost): the assignments of minimum total cost; when
\* several are optimal the one scipy returns is not specified
MinCostAssignments(cost, n, m) ==
    LET all == Assignments(n, m)
    IN {A \in all : \A B \in all : SumOver(A, cost) <= SumOver(B, cost)}

\* a float32 IoU entry, in hundred-thousandths
IouEntry(f) == (100000 * f.n) \div f.d

\* the box Phase 1 compares: track.predicted_bbox or track.bbox
Phase1Box(track) ==
    IF track.predicted_bbox # None THEN track.predicted_bbox[1] ELSE track.bbox

\* step 2: the ids of the active and of the lost tracks, in table order
ActiveTracks(trk) == SortedSeq({tid \in DOMAIN trk : trk[tid].lost = 0})
LostTracks(trk) == SortedSeq({tid \in DOMAIN trk : trk[tid].lost > 0})

\* FASE 1: the results linear_sum_assignment(-iou_matrix) may return
KalmanPhase1Choices(trk, detections) ==
    IF ActiveTracks(trk) # <<>> /\ detections # <<>>
    THEN MinCostAssignments(
            [q \in (1..Len(ActiveTracks(trk))) \X (1..Len(detections)) |->
                -IouEntry(iou(Phase1Box(trk[ActiveTracks(trk)[q[1]]]),
                              detections[q[2]].bbox))],
            Len(ActiveTracks(trk)), Len(detections))
    ELSE {{}}

\* FASE 1 without the "if iou_matrix[r, c] >= self.iou_threshold" filter
KalmanPhase1Unfiltered(trk, detections, A1) ==
    AsDict(A1, ActiveTracks(trk))

\* FASE 1: the pairs of the returned assignment with IoU >= iou_threshold
KalmanPhase1(trk, detections, A1) ==
    AsDict({q \in A1 : ~FLess(iou(Phase1Box(trk[ActiveTracks(trk)[q[1]]]),
                                  detections[q[2]].bbox), iou_threshold)},
           ActiveTracks(trk))

\* the detection indices no track holds yet, ascending
UnassignedDets(detections, assignments) ==
    SortedSeq((1..Len(detections)) \ {assignments[tid] : tid \in DOMAIN assignments})

\* the threshold with the multiplier 1.5 from the second lost frame on
EffectiveThresholdRelaxedEarly(track) ==
    IF track.lost > 1 THEN (mahalanobis_threshold * 3) \div 2
    ELSE mahalanobis_threshold

\* threshold_multiplier * mahalanobis_threshold, in hundredths
EffectiveThreshold(track) ==
    IF track.lost > RelaxAfterLost THEN (mahalanobis_threshold * 3) \div 2
    ELSE mahalanobis_threshold

\* one entry of dist_matrix: dist if the track has hits >= 2 and dist is
\* under the effective threshold, else inf
Gated(track, dist) ==
    IF track.hits < KalmanPhase2MinHits THEN inf
    ELSE IF dist.finite /\ dist.value < EffectiveThreshold(track) THEN dist
    ELSE inf

\* FASE 2: dist_matrix over lost tracks x unassigned detections
DistMatrix(trk, lost_tracks, detections, unassigned_dets) ==
    [q \in (1..Len(lost_tracks)) \X (1..Len(unassigned_dets)) |->
        Gated(trk[lost_tracks[q[1]]],
              mahalanobis_distance(trk[lost_tracks[q[1]]],
                                   detections[unassigned_dets[q[2]]].bbox))]

\* FASE 2: the results linear_sum_assignment(dist_matrix) may return for n
\* lost tracks and m unassigned detections; an infeasible matrix raises
\* ValueError, which update() swallows
KalmanPhase2Choices(dist_matrix, n, m) ==
    LET feasible == {A \in Assignments(n, m) : \A q \in A : dist_matrix[q].finite}
        cost == [q \in DOMAIN dist_matrix |-> dist_matrix[q].value]
    IN IF /\ n > 0 /\ m > 0
          /\ \E q \in DOMAIN dist_matrix : dist_matrix[q].finite
          /\ feasible # {}
       THEN {A \in feasible : \A B \in feasible : SumOver(A, cost) <= SumOver(B, cost)}
       ELSE {{}}

\* FASE 2 with the column c used as the detection index, for unassigned_dets[c]
KalmanPhase2Column(trk, lost_tracks, unassigned_dets, dist_matrix, A2) ==
    [tid \in {lost_tracks[q[1]] : q \in A2} |->
        (CHOOSE q \in A2 : lost_tracks[q[1]] = tid)[2]]

\* FASE 2: the pairs of the returned assignment under the threshold
KalmanPhase2(trk, lost_tracks, unassigned_dets, dist_matrix, A2) ==
    LET ok == {q \in A2 : /\ dist_matrix[q].finite
                          /\ dist_matrix[q].value
                                < EffectiveThreshold(trk[lost_tracks[q[1]]])}
    IN [tid \in {lost_tracks[q[1]] : q \in ok} |->
          unassigned_dets[(CHOOSE q \in ok : lost_tracks[q[1]] = tid)[2]]]

\* step 3A after kf.update(z) left the filter kf: the hybrid box, Car.update
Hybrid(track, det, kf) ==
    LET pw == kf.x[3]
        ph == kf.x[4]
        corrected_bbox == BoxAround(kf.x[1], kf.x[2], pw, ph)
        kalman_weight == IF track.hits >= 10 THEN 8        \* tenths
                         ELSE IF track.hits >= 5 THEN 7 ELSE 5
        final_bbox == [i \in 1..4 |->
                         IntOf(10 * (kalman_weight * corrected_bbox[i]
                                     + (10 - kalman_weight) * det.bbox[i]))]
    IN CarUpdate([track EXCEPT !.kalman_filter = Some(kf)],
                 IF /\ track.hits >= HybridMinHits
                    /\ 100 * PredMinSize < pw /\ pw < 100 * PredMaxSize
                    /\ 100 * PredMinSize < ph /\ ph < 100 * PredMaxSize
                 THEN final_bbox ELSE det.bbox,
                 det.conf)

\* step 3A for one matched track: Kalman correction, then the hybrid box
KalmanCorrect(track, det) ==
    Hybrid(track, det, KfUpdate(track.kalman_filter[1], Measurement(det.bbox)))

\* step 3C: one _create_track per unmatched detection, in ascending order
RECURSIVE KalmanCreateTracks(_, _, _, _)
KalmanCreateTracks(trk, nid, detections, un_dets) ==
    IF un_dets = <<>> THEN [tracks |-> trk, next_id |-> nid]
    ELSE KalmanCreateTracks(
            kalman_create_track(trk, nid, detections[Head(un_dets)].bbox,
                                detections[Head(un_dets)].conf).tracks,
            nid + 1, detections, Tail(un_dets))

\* steps 3 and 4 of update() for the committed assignments of both phases
KalmanApply(trk, nid, predicted, detections, phase1, assignments) ==
    Finish(trk, nid, detections, detections, assignments, phase1,
           Range(UnassignedDets(detections, assignments)),
           KalmanCreateTracks(
              [tid \in DOMAIN trk |->
                  IF tid \in DOMAIN assignments
                  THEN KalmanCorrect(predicted[tid], detections[assignments[tid]])
                  ELSE mark_missed(predicted[tid])],
              nid, detections, UnassignedDets(detections, assignments)),
           max_lost,
           [tid \in DOMAIN trk |-> Phase1Box(predicted[tid])])

\* FASE 2 on dist_matrix: one outcome of update() per result of the
\* Hungarian step
KalmanMatchLost(trk, nid, predicted, detections, phase1, lost_tracks, unassigned_dets, dist_matrix) ==
    { KalmanApply(trk, nid, predicted, detections, phase1,
                  KalmanPhase2(predicted, lost_tracks, unassigned_dets,
                               dist_matrix, A2) @@ phase1) :
      A2 \in KalmanPhase2Choices(dist_matrix, Len(lost_tracks), Len(unassigned_dets)) }

\* update() after FASE 1 committed phase1
KalmanAfterPhase1(trk, nid, predicted, detections, phase1, lost_tracks, unassigned_dets) ==
    KalmanMatchLost(trk, nid, predicted, detections, phase1, lost_tracks,
                    unassigned_dets,
                    DistMatrix(predicted, lost_tracks, detections, unassigned_dets))

\* update() after step 1 left the tracks as `predicted`
KalmanAfterPredict(trk, nid, predicted, detections) ==
    UNION { KalmanAfterPhase1(trk, nid, predicted, detections,
                              KalmanPhase1(predicted, detections, A1),
                              LostTracks(predicted),
                              UnassignedDets(detections,
                                             KalmanPhase1(predicted, detections, A1))) :
            A1 \in KalmanPhase1Choices(predicted, detections) }

\* KalmanTracker.update(frame, detections): the outcomes the call can have,
\* one per pair of results of the two linear_sum_assignment calls
KalmanUpdate(trk, nid, detections) ==
    KalmanAfterPredict(trk, nid, [tid \in DOMAIN trk |-> PredictTrack(trk[tid])],
                       detections)

---------------------------------------------------------------------------
(* Inputs: the detections a frame can carry *)

Det(bbox, conf) == [bbox |-> bbox, conf |-> conf]

\* confidences are percentages
DetA   == Det(<<80, 80, 120, 120>>, 90)    \* a 40x40 car centred at (100,100)
DetA10 == Det(<<90, 80, 130, 120>>, 80)    \* the same car 10 px to the right
DetA28 == Det(<<108, 80, 148, 120>>, 60)   \* overlapping fragment, IoU < 0.3
DetB   == Det(<<300, 80, 340, 120>>, 70)   \* another car far away
DetL30 == Det(<<50, 80, 90, 120>>, 90)     \* the car of DetA 30, 20, 10 px to the left
DetL20 == Det(<<60, 80, 100, 120>>, 90)
DetL10 == Det(<<70, 80, 110, 120>>, 90)

Dets == {DetA, DetA10, DetA28, DetB}

RECURSIVE SeqsUpTo(_, _)
SeqsUpTo(S, n) ==
    IF n = 0 THEN {<<>>}
    ELSE LET shorter == SeqsUpTo(S, n - 1)
         IN shorter \cup {Append(s, x) : s \in {t \in shorter : Len(t) = n - 1}, x \in S}

DetLists == SeqsUpTo(Dets, MaxDets)

\* histogram correlation of a lost track with a detection, in percent
CorrLevels == {-50, 100}

\* the detections of the scenario frames
DetL40  == Det(<<40, 80, 80, 120>>, 90)      \* the car of DetA 40 px to the left
DetA30  == Det(<<110, 80, 150, 120>>, 90)    \* the car of DetA centred at (130,100)
DetA35  == Det(<<115, 80, 155, 120>>, 90)    \* the car of DetA centred at (135,100)
DetA50  == Det(<<130, 80, 170, 120>>, 90)    \* the car of DetA centred at (150,100)
DetZero == Det(<<100, 80, 100, 120>>, 50)    \* a zero-width box centred at (100,100)
DetR30  == Det(<<510, 80, 550, 120>>, 90)    \* a car moving left 10 px per frame,
DetR20  == Det(<<500, 80, 540, 120>>, 90)    \* last seen centred at (500,100)
DetR10  == Det(<<490, 80, 530, 120>>, 90)
DetR    == Det(<<480, 80, 520, 120>>, 90)
DetFar  == Det(<<960, 80, 1000, 120>>, 90)   \* centred at (980,100)
DetA15  == Det(<<95, 80, 135, 120>>, 90)     \* the car of DetA centred at (115,100)
DetM    == Det(<<135, 80, 175, 120>>, 90)    \* a second car, centred at (155,100),
DetM6   == Det(<<141, 80, 181, 120>>, 90)    \* and 6 px to the right
DetS9   == Det(<<35, 80, 75, 120>>, 90)      \* a slow car moving right 3 px per
DetS6   == Det(<<38, 80, 78, 120>>, 90)      \* frame, last seen centred at (64,100)
DetS3   == Det(<<41, 80, 81, 120>>, 90)
DetS    == Det(<<44, 80, 84, 120>>, 90)
DetL15  == Det(<<65, 80, 105, 120>>, 90)     \* the car of DetA 15 px to the left

ScenarioDets == {DetA, DetA15, DetA30, DetA35, DetA50, DetZero, DetFar}

ScenarioLists == SeqsUpTo(ScenarioDets, MaxDets)

\* boxes for the geometry of iou and _merge_fragments
Box1 == Det(<<0, 0, 30, 30>>, 90)
Box2 == Det(<<20, 0, 50, 30>>, 80)     \* IoU 0.2 with Box1, centres 20 px apart
Box3 == Det(<<10, 10, 20, 20>>, 70)    \* inside Box1, a ninth of its area
Box4 == Det(<<15, 20, 45, 50>>, 60)    \* IoU 1/11 with Box1, centres 25 px apart
Box5 == Det(<<50, 0, 60, 10>>, 50)
Box6 == Det(<<0, 5, 110, 6>>, 40)      \* inter / union = 1/20 with Box5
Box7 == Det(<<15, 15, 15, 15>>, 30)    \* a zero-area box

Boxes == {Box1, Box2, Box3, Box4, Box5, Box6, Box7}

BoxLists == SeqsUpTo(Boxes, MaxDets)

\* a chain of fragments: Box1 and Box2 meet the merge criteria, Box2 and Box8
\* meet them, Box1 and Box8 do not overlap
Box8 == Det(<<40, 0, 70, 30>>, 95)
ChainBoxes == {Box1, Box2, Box8}
ChainLists == {[i \in 1..ChainLen |-> f[i]] : f \in [1..ChainLen -> ChainBoxes]}

\* two cars side by side and the two detections of the next frame: DetU has
\* IoU 1/3 with DetP and 9/31 with DetQ, DetV has IoU 9/31 with DetP and 0
\* with DetQ
DetP == Det(<<22, 0, 62, 40>>, 90)
DetQ == Det(<<64, 0, 104, 40>>, 90)
DetU == Det(<<42, 0, 82, 40>>, 90)
DetV == Det(<<0, 0, 40, 40>>, 90)
CrossDets == {DetU, DetV}
CrossLists == SeqsUpTo(CrossDets, MaxDets)

---------------------------------------------------------------------------
(* Histories: the calls an instance has already served when the           *)
(* exploration starts.  Each is replayed through update() from the empty   *)
(* tracker, so every initial state is a state the program reaches.         *)

Seeds == {"fresh", "established", "coasting", "long"}

\* the scenario histories.  reappearing: the established car, then three
\* frames without detections.  reappearing5: the same car seen in five frames.
\* receding: a car moving left 10 px per frame, then one frame without
\* detections.  parked: one car seen four times at the same place, then one
\* frame without detections.  parked_wide: the same on an instance built with
\* search_radius = WideSearchRadius.  twice: a car seen twice, then one frame
\* without detections.  boxes: no call yet, the frames to come carry Boxes.
\* chain: no call yet, the frames to come carry ChainLen of the ChainBoxes.
\* rivals: a parked car and, 55 px to its right, a car that shifts 6 px right
\* and back, both seen four times, then one frame without detections.
\* abandoned: a slow car seen four times, then Phase2MaxLost + 1 frames without
\* detections, on an instance built with buffer_frames = LongBuffer.
\* speeding: a car moving right 15 px per frame, seen four times, then one
\* frame without detections.  crossing: one frame with the cars DetP and DetQ,
\* the frames to come carry CrossDets.
ScenarioSeeds ==
    {"reappearing", "reappearing5", "receding", "parked", "parked_wide", "twice",
     "boxes", "chain", "rivals", "abandoned", "speeding", "crossing"}

\* fresh: no call yet.  established: one car seen in four consecutive frames,
\* moving right 10 px per frame.  coasting: the same, then one frame without
\* detections.  long: one car seen in MaxCentroids frames.
History(s) ==
    CASE s = "fresh" -> <<>>
      [] s = "established" -> << <<DetL30>>, <<DetL20>>, <<DetL10>>, <<DetA>> >>
      [] s = "coasting" -> << <<DetL30>>, <<DetL20>>, <<DetL10>>, <<DetA>>, <<>> >>
      [] s = "long" -> [i \in 1..MaxCentroids |->
                          IF i % 2 = 1 THEN <<DetA>> ELSE <<DetA10>>]
      [] s = "reappearing" ->
            << <<DetL30>>, <<DetL20>>, <<DetL10>>, <<DetA>>, <<>>, <<>>, <<>> >>
      [] s = "reappearing5" ->
            << <<DetL40>>, <<DetL30>>, <<DetL20>>, <<DetL10>>, <<DetA>>,
               <<>>, <<>>, <<>> >>
      [] s = "receding" -> << <<DetR30>>, <<DetR20>>, <<DetR10>>, <<DetR>>, <<>> >>
      [] s \in {"parked", "parked_wide"} ->
            << <<DetA>>, <<DetA>>, <<DetA>>, <<DetA>>, <<>> >>
      [] s = "twice" -> << <<DetL10>>, <<DetA>>, <<>> >>
      [] s = "abandoned" ->
            [i \in 1..(4 + Phase2MaxLost + 1) |->
                CASE i = 1 -> <<DetS9>>
                  [] i = 2 -> <<DetS6>>
                  [] i = 3 -> <<DetS3>>
                  [] i = 4 -> <<DetS>>
                  [] OTHER -> <<>>]
      [] s = "rivals" ->
            << <<DetA, DetM>>, <<DetA, DetM>>, <<DetA, DetM6>>, <<DetA, DetM>>, <<>> >>
      [] s = "speeding" -> << <<DetS9>>, <<DetL30>>, <<DetL15>>, <<DetA>>, <<>> >>
      [] s = "crossing" -> << <<DetP, DetQ>> >>
      [] s \in {"boxes", "chain"} -> <<>>

\* the detection lists the exploration feeds to an instance started from s
Frames(s) ==
    IF s \in Seeds THEN DetLists
    ELSE IF s = "boxes" THEN BoxLists
    ELSE IF s = "chain" THEN ChainLists
    ELSE IF s = "crossing" THEN CrossLists ELSE ScenarioLists

\* the number of update() calls explored after History(s)
Calls(s) == IF s \in Seeds THEN MaxCalls ELSE ScenarioCalls

\* one update() call of a tracker of class c (in a history no lost track
\* meets a detection, so Phase 2 does not run and the Hungarian result is unique)
Call(c, s, trk, nid, detections) ==
    CASE c = "Tracker" -> TrackerUpdate(trk, nid, detections)
      [] c = "OcclusionTracker" ->
            OcclusionUpdate(trk, nid, detections, 100, BufferOf(s))
      [] c = "KalmanTracker" ->
            CHOOSE r \in KalmanUpdate(trk, nid, detections) : TRUE

\* the calls of a history in order; an exception would end it
RECURSIVE Replay(_, _, _, _)
RECURSIVE Continue(_, _, _, _)
Replay(c, s, frames, st) ==
    IF frames = <<>> THEN st
    ELSE Continue(c, s, Tail(frames),
                  Call(c, s, st.tracks, st.next_id, Head(frames)))

Continue(c, s, frames, r) ==
    IF r.raised THEN r ELSE Replay(c, s, frames, r)

\* the instance after __init__ and the calls of History(s)
After(c, s) ==
    Replay(c, s, History(s), [tracks |-> <<>>, next_id |-> 1, raised |-> FALSE,
                           last |-> NoCall])

---------------------------------------------------------------------------
(* Diagnostic tracing: every use of self.debug guards print() calls only.    *)
(* The lines of update(), _match and _merge_fragments are kept, as tags; the *)
(* REJECT and candidate lines of the scoring functions are not.              *)

\* the lines a call with record l prints when self.debug is set
Lines(c, l) ==
    CASE c = "OcclusionTracker" ->
            (IF Len(l.matched_on) < Len(l.detections) THEN {<<"MERGE", 0>>} ELSE {})
            \cup {<<"ReID", tid>> : tid \in DOMAIN l.assignments \ DOMAIN l.phase1}
            \cup {<<"NEW", tid>> : tid \in l.created}
            \cup {<<"Delete", tid>> : tid \in l.deleted}
      [] c = "KalmanTracker" ->
            {<<"RE-ID", tid>> : tid \in DOMAIN l.assignments \ DOMAIN l.phase1}
            \cup {<<"Update", tid>> : tid \in {t \in DOMAIN l.assignments : t % 5 = 0}}
            \cup {<<"Delete", tid>> : tid \in l.deleted}
      [] OTHER -> {}

\* "del self.tracks[tid]" indented under the "if self.debug:" before it:
\* without debug the expired tracks stay in the table
DiagnosticsGuardingDelete(c, dbg, r) ==
    IF dbg THEN [r EXCEPT !.last.printed = Lines(c, r.last)]
    ELSE [r EXCEPT !.tracks = [tid \in DOMAIN r.tracks \cup (r.last.deleted \cap DOMAIN r.last.pre) |->
                                  IF tid \in DOMAIN r.tracks THEN r.tracks[tid]
                                  ELSE mark_missed(r.last.pre[tid])]]

\* the outcome r of update() on an instance of class c with self.debug = dbg
Diagnostics(c, dbg, r) ==
    IF dbg /\ ~r.raised THEN [r EXCEPT !.last.printed = Lines(c, r.last)] ELSE r

---------------------------------------------------------------------------
(* The state machine *)

\* the instance starts as st
Starts(st) ==
    /\ tracks = st.tracks
    /\ next_id = st.next_id
    /\ last = st.last

\* update() ends with outcome r
Becomes(r) ==
    /\ tracks' = r.tracks
    /\ next_id' = r.next_id
    /\ last' = r.last

Init ==
    /\ cls \in {"Tracker", "OcclusionTracker", "KalmanTracker"}
    /\ seed \in Seeds
    /\ Starts(After(cls, seed))
    /\ frame_count = Len(History(seed))
    /\ debug = FALSE

UpdateTracker ==
    /\ cls = "Tracker"
    /\ ~last.raised
    /\ frame_count < Len(History(seed)) + Calls(seed)
    /\ \E detections \in Frames(seed) :
          Becomes(TrackerUpdate(tracks, next_id, detections))
    /\ frame_count' = frame_count + 1
    /\ UNCHANGED <<cls, seed, debug>>

UpdateOcclusion ==
    /\ cls = "OcclusionTracker"
    /\ ~last.raised
    /\ frame_count < Len(History(seed)) + Calls(seed)
    /\ \E detections \in Frames(seed), corr \in CorrLevels :
          Becomes(Diagnostics(cls, debug,
                              OcclusionUpdate(tracks, next_id, detections, corr,
                                              self_buffer_frames)))
    /\ frame_count' = frame_count + 1
    /\ UNCHANGED <<cls, seed, debug>>

UpdateKalman ==
    /\ cls = "KalmanTracker"
    /\ ~last.raised
    /\ frame_count < Len(History(seed)) + Calls(seed)
    /\ \E detections \in Frames(seed) :
          \E r \in KalmanUpdate(tracks, next_id, detections) :
              Becomes(Diagnostics(cls, debug, r))
    /\ frame_count' = frame_count + 1
    /\ UNCHANGED <<cls, seed, debug>>

Next == UpdateTracker \/ UpdateOcclusion \/ UpdateKalman

Spec == Init /\ [][Next]_vars

\* the instances that start from a scenario history
ScenarioInit ==
    /\ cls \in {"Tracker", "OcclusionTracker", "KalmanTracker"}
    /\ seed \in ScenarioSeeds
    /\ Starts(After(cls, seed))
    /\ frame_count = Len(History(seed))
    /\ debug \in IF cls = "Tracker" THEN {FALSE} ELSE BOOLEAN

ScenarioSpec == ScenarioInit /\ [][Next]_vars

---------------------------------------------------------------------------
(* Properties of one update() call, stated over the record of the last call *)

\* the configured buffer of the instance
Buffer == IF cls = "OcclusionTracker" THEN self_buffer_frames ELSE max_lost

\* the tracks that existed at the start of the last call
Before == DOMAIN last.pre

\* was track tid committed to a detection in the last call (either phase)?
Matched(tid) == tid \in DOMAIN last.assignments

\* C1: the ids of all tracks ever created are pairwise distinct and strictly
\* increasing in creation order.  In every call the id counter never goes
\* back, every id in the table is below it, and the tracks that enter the
\* table are exactly the ids from the old counter up to, not including, the
\* new one, one per creation -- so every new id exceeds every id handed out
\* before, evicted or not.
C1_IdsUniqueIncreasing ==
    [][ /\ next_id' >= next_id
        /\ \A tid \in DOMAIN tracks : tid < next_id
        /\ DOMAIN tracks' \ DOMAIN tracks = next_id .. (next_id' - 1)
        /\ Cardinality(DOMAIN tracks' \ DOMAIN tracks) = Cardinality(last'.un_dets)
      ]_vars

\* a track is created after an earlier track was evicted
C1_Witness ==
    /\ last.created # {}
    /\ \E old \in 1 .. (last.pre_id - 1) : old \notin Before

\* C2: after any update() call the committed assignment is 1:1 across both
\* phases: no two tracks hold the same detection index, and Phase 2 leaves
\* every pair Phase 1 committed as it was (no track is assigned twice).
C2_AssignmentOneToOne ==
    /\ \A t1, t2 \in DOMAIN last.assignments :
          t1 # t2 => last.assignments[t1] # last.assignments[t2]
    /\ \A tid \in DOMAIN last.phase1 :
          Matched(tid) /\ last.assignments[tid] = last.phase1[tid]
    /\ \A tid \in DOMAIN last.assignments :
          /\ tid \in Before
          /\ last.assignments[tid] \in 1 .. Len(last.matched_on)

\* one call commits a pair in Phase 1 and another pair in Phase 2
C2_Witness ==
    /\ cls \in {"OcclusionTracker", "KalmanTracker"}
    /\ DOMAIN last.phase1 # {}
    /\ DOMAIN last.assignments \ DOMAIN last.phase1 # {}

\* C3: for every track that exists at the start of an update() call, lost is
\* 0 after the call if the track was matched, and its previous value plus 1
\* if it was not (a track missing afterwards was unmatched and went past the
\* buffer).
C3_LostResetOrAged ==
    ~last.raised =>
      \A tid \in Before :
         IF Matched(tid)
         THEN tid \in DOMAIN tracks /\ tracks[tid].lost = 0
         ELSE IF tid \in DOMAIN tracks
              THEN tracks[tid].lost = last.pre[tid].lost + 1
              ELSE last.pre[tid].lost + 1 > Buffer

\* one call matches a lost track again and ages another, already lost one
C3_Witness ==
    \E t1, t2 \in Before :
       /\ Matched(t1) /\ last.pre[t1].lost > 0 /\ tracks[t1].lost = 0
       /\ ~Matched(t2) /\ t2 \in DOMAIN tracks /\ tracks[t2].lost = 2

\* C4: update() removes a track iff, after matching and aging, its lost
\* counter exceeds the buffer: no track in the table is past the buffer, and
\* every removed track was unmatched in the call that took it from lost =
\* buffer to buffer + 1.
C4_RemovedIffPastBuffer ==
    ~last.raised =>
      /\ \A tid \in DOMAIN tracks : tracks[tid].lost <= Buffer
      /\ \A tid \in last.deleted :
            /\ tid \in Before
            /\ ~Matched(tid)
            /\ last.pre[tid].lost = Buffer
      /\ \A tid \in Before :
            ~Matched(tid) /\ last.pre[tid].lost < Buffer => tid \in DOMAIN tracks

\* one call removes a track and keeps another that it aged
C4_Witness ==
    /\ last.deleted # {}
    /\ \E tid \in Before : ~Matched(tid) /\ tid \in DOMAIN tracks

\* C5: every pair committed by Phase 1 has IoU >= iou_threshold, the IoU
\* being taken between the detection and the box Phase 1 compares (the
\* track's bbox; for KalmanTracker its predicted bbox).
C5_Phase1AboveThreshold ==
    \A tid \in DOMAIN last.phase1 :
       ~FLess(iou(last.pred[tid], last.matched_on[last.phase1[tid]].bbox),
              Frac(IouThrNum, IouThrDen))

\* Phase 1 of a KalmanTracker commits a pair on a predicted box that differs
\* from the track's box and leaves an overlapping pair below the threshold
C5_Witness ==
    /\ cls = "KalmanTracker"
    /\ \E tid \in DOMAIN last.phase1 :
          /\ last.pred[tid] # last.pre[tid].bbox
          /\ FLess(iou(last.pred[tid], last.matched_on[last.phase1[tid]].bbox),
                   Frac(1, 1))
    /\ \E tid \in Before, di \in last.un_dets :
          /\ last.pre[tid].lost = 0
          /\ iou(last.pred[tid], last.matched_on[di].bbox).n > 0

\* the unmatched detection indices of the last call, in ascending order
Unmatched == SortedSeq(last.un_dets)

\* C6: in every update() call each detection not committed in Phase 1 or
\* Phase 2 spawns exactly one new track: as many tracks are created as
\* detections are left unmatched, and the k-th of them has the k-th next id,
\* lost = 0, exactly one centroid at that detection's centre and, in a
\* KalmanTracker, a filter state with zero velocity.
C6_UnmatchedSpawnsTrack ==
    ~last.raised =>
      /\ Cardinality(last.created) = Cardinality(last.un_dets)
      /\ \A k \in 1 .. Len(Unmatched) :
            LET tid == last.pre_id + k - 1
                det == last.matched_on[Unmatched[k]]
            IN /\ tid \in DOMAIN tracks
               /\ tid \notin Before
               /\ tracks[tid].lost = 0
               /\ tracks[tid].centroids = <<bbox_center(det.bbox)>>
               /\ cls = "KalmanTracker" =>
                     /\ tracks[tid].kalman_filter # None
                     /\ tracks[tid].kalman_filter[1].x[5] = 0
                     /\ tracks[tid].kalman_filter[1].x[6] = 0
                     /\ tracks[tid].kalman_filter[1].x[7] = 0

\* C6 for the trackers that match on the list they were given
C6_WithoutMerging ==
    cls # "OcclusionTracker" => C6_UnmatchedSpawnsTrack

\* C7: hits never decreases: over one update() call it grows by exactly 1
\* for a matched track and stays as it was for an unmatched one.
C7_HitsCountMatches ==
    ~last.raised =>
      \A tid \in Before \cap DOMAIN tracks :
         tracks[tid].hits = last.pre[tid].hits + (IF Matched(tid) THEN 1 ELSE 0)

\* one call matches a track for the fifth time and leaves another unmatched
C7_Witness ==
    \E t1, t2 \in Before \cap DOMAIN tracks :
       /\ Matched(t1) /\ tracks[t1].hits = 5
       /\ ~Matched(t2) /\ tracks[t2].hits = last.pre[t2].hits

\* C8: after any update() call every coasting track (lost > 0) has
\* confidence 0 and every matched track has the confidence of the detection
\* it was matched to.
C8_ConfidenceZeroWhileCoasting ==
    ~last.raised =>
      \A tid \in DOMAIN tracks :
         /\ tracks[tid].lost > 0 => tracks[tid].confidence = 0
         /\ Matched(tid) =>
               tracks[tid].confidence = last.matched_on[last.assignments[tid]].conf

\* C9: after every update() call a track's predicted_bbox is non-empty only
\* if lost > 0; every track matched or created in the call has it cleared.
C9_PredictionOnlyWhileLost ==
    \A tid \in DOMAIN tracks :
       /\ tracks[tid].predicted_bbox # None => tracks[tid].lost > 0
       /\ Matched(tid) \/ tid \in last.created => tracks[tid].predicted_bbox = None

\* a KalmanTracker matches a lost track that carried a prediction, while
\* another track keeps coasting on its prediction
C9_Witness ==
    /\ cls = "KalmanTracker"
    /\ \E t1, t2 \in Before \cap DOMAIN tracks :
          /\ Matched(t1)
          /\ last.pre[t1].predicted_bbox # None
          /\ tracks[t1].predicted_bbox = None
          /\ tracks[t2].lost > 0
          /\ tracks[t2].predicted_bbox # None

\* C10: every track's centroid history holds between 1 and 50 entries and
\* ends with the centre of the track's box (the last applied one); a matched
\* update appends that centre and, past 50 entries, drops the oldest so that
\* the newest 50 stay in order; an unmatched track keeps its history.
C10_CentroidHistoryBounded ==
    /\ \A tid \in DOMAIN tracks :
          LET cs == tracks[tid].centroids
          IN /\ 1 <= Len(cs) /\ Len(cs) <= MaxCentroids
             /\ cs[Len(cs)] = bbox_center(tracks[tid].bbox)
    /\ ~last.raised =>
         \A tid \in Before \cap DOMAIN tracks :
            LET old == last.pre[tid].centroids
                cs == tracks[tid].centroids
            IN IF ~Matched(tid) THEN cs = old
               ELSE IF Len(old) < MaxCentroids
               THEN cs = Append(old, bbox_center(tracks[tid].bbox))
               ELSE /\ Len(cs) = MaxCentroids
                    /\ \A i \in 1 .. (MaxCentroids - 1) : cs[i] = old[i + 1]

\* a track with a full history is matched to a box at another place
C10_Witness ==
    \E tid \in Before \cap DOMAIN tracks :
       /\ Matched(tid)
       /\ Len(last.pre[tid].centroids) = MaxCentroids
       /\ tracks[tid].centroids[MaxCentroids] # last.pre[tid].centroids[MaxCentroids]
       /\ tracks[tid].centroids[1] # last.pre[tid].centroids[1]

---------------------------------------------------------------------------
(* Scenarios of OcclusionTracker Phase 2 *)

\* the size <<w, h>> of a box
SizeOf(bbox) == <<bbox[3] - bbox[1], bbox[4] - bbox[2]>>

\* the last update() call was given exactly one detection, of the size of
\* track tid and centred at <<cx, cy>> pixels
OnlyDetectionAt(tid, cx, cy) ==
    /\ Len(last.detections) = 1
    /\ bbox_center(last.detections[1].bbox) = <<2 * cx, 2 * cy>>
    /\ SizeOf(last.detections[1].bbox) = SizeOf(last.pre[tid].bbox)

\* before the last call, track tid had moved <<vx, vy>> pixels in each of its
\* last three steps and was last seen at <<cx, cy>> pixels
MovingAt(tid, cx, cy, vx, vy) ==
    LET cs == last.pre[tid].centroids
        n == Len(cs)
    IN /\ n >= 4
       /\ cs[n] = <<2 * cx, 2 * cy>>
       /\ \A i \in (n - 2)..n :
             cs[i] = <<cs[i-1][1] + 2 * vx, cs[i-1][2] + 2 * vy>>

\* the last call re-identified track tid in Phase 2 and created no track
Reidentified(tid) ==
    /\ tid \in DOMAIN tracks
    /\ tracks[tid].lost = 0
    /\ tid \in DOMAIN last.assignments
    /\ tid \notin DOMAIN last.phase1
    /\ last.created = {}

\* the re-identification scenario: a track with at least 4 hits, last seen at
\* (100,100) moving right 10 px per frame, lost for 3 frames, and a frame
\* whose only detection has its size and is centred at (130,100)
Reappears(tid) ==
    /\ cls = "OcclusionTracker"
    /\ ~last.raised
    /\ tid \in DOMAIN last.pre
    /\ last.pre[tid].lost = 3
    /\ last.pre[tid].hits >= Phase2MinHits
    /\ MovingAt(tid, 100, 100, 10, 0)
    /\ OnlyDetectionAt(tid, 130, 100)

\* C11 as stated: in the re-identification scenario the track keeps its id,
\* its lost counter returns to 0 and no new track is created for the detection.
C11_Reidentified ==
    \A tid \in DOMAIN last.pre : Reappears(tid) => Reidentified(tid)

\* C11, amended: the same, provided the appearance gate does not reject the
\* pair, i.e. the track has fewer than 5 hits or the histogram correlation of
\* the frame is not below -0.3.
C11_ReidentifiedUnlessAppearanceRejects ==
    \A tid \in DOMAIN last.pre :
        Reappears(tid) /\ (last.pre[tid].hits < 5 \/ last.corr >= -30)
            => Reidentified(tid)

\* a track with 5 hits has been re-identified in the scenario
C11_Witness ==
    \E tid \in DOMAIN last.pre :
        /\ Reappears(tid)
        /\ last.pre[tid].hits >= 5
        /\ Reidentified(tid)
        /\ tracks[tid].centroids[Len(tracks[tid].centroids)] = <<260, 200>>

\* the displacement, in ticks, of the only detection of the last call from
\* the position _compute_match_score predicted for track tid
FromPredicted(tid) ==
    LET predicted_pos == predict_position(last.pre[tid], FramesAhead(last.pre[tid]))
        det_center == bbox_center(last.detections[1].bbox)
    IN <<12 * det_center[1] - predicted_pos[1], 12 * det_center[2] - predicted_pos[2]>>

\* the last step of track tid before the last call, in half-pixels
LastStep(tid) ==
    LET cs == last.pre[tid].centroids
        n == Len(cs)
    IN <<cs[n][1] - cs[n-1][1], cs[n][2] - cs[n-1][2]>>

\* the rejection scenario: a track lost for 1 frame and a frame whose only
\* detection is 500 px or more from the predicted position, against the motion
FarBehind(tid) ==
    /\ cls = "OcclusionTracker"
    /\ ~last.raised
    /\ tid \in DOMAIN last.pre
    /\ last.pre[tid].lost = 1
    /\ Len(last.pre[tid].centroids) >= 2
    /\ Len(last.detections) = 1
    /\ hypot(FromPredicted(tid)[1], FromPredicted(tid)[2]) >= 500 * Tick
    /\ FromPredicted(tid)[1] * LastStep(tid)[1]
         + FromPredicted(tid)[2] * LastStep(tid)[2] < 0

\* the last call left track tid unmatched and gave the only detection a new id
RejectedAndCreated(tid) ==
    /\ tid \notin DOMAIN last.assignments
    /\ tid \in DOMAIN tracks
    /\ tracks[tid].lost = 2
    /\ last.created = {last.pre_id}
    /\ last.pre_id \notin DOMAIN last.pre
    /\ last.pre_id \in DOMAIN tracks
    /\ tracks[last.pre_id].bbox = last.detections[1].bbox
    /\ tracks[last.pre_id].lost = 0

\* C12: when a track has been lost for 1 frame and the only detection is 500 px
\* from its predicted position, opposite to its motion, Phase 2 rejects the
\* pair: the track stays unmatched with lost = 2 and the detection gets a new
\* track with a fresh id.
C12_FarDetectionRejected ==
    \A tid \in DOMAIN last.pre : FarBehind(tid) => RejectedAndCreated(tid)

\* the scenario has happened: the car that was moving left is still lost and
\* the detection 500 px to its right has its own track
C12_Witness ==
    \E tid \in DOMAIN last.pre :
        /\ FarBehind(tid)
        /\ last.pre[tid].hits >= Phase2MinHits
        /\ FromPredicted(tid) = <<500 * Tick, 0>>
        /\ RejectedAndCreated(tid)

\* the squared distance, in half-pixels, between the centre of bbox and the
\* last centroid of track
JumpSq(track, bbox) ==
    LET c == bbox_center(bbox)
        l == track.centroids[Len(track.centroids)]
    IN (c[1] - l[1]) * (c[1] - l[1]) + (c[2] - l[2]) * (c[2] - l[2])

\* the tracks the last call re-identified in Phase 2
Phase2Matched == DOMAIN last.assignments \ DOMAIN last.phase1

\* C13: in OcclusionTracker Phase 2 a lost track that _is_static classifies as
\* static is never re-identified with a detection whose centre is more than
\* 30 px from the track's last centroid, whatever search_radius is.
C13_StaticTrackDoesNotJump ==
    cls = "OcclusionTracker" =>
        \A tid \in Phase2Matched :
            is_static(last.pre[tid]) =>
                JumpSq(last.pre[tid], last.matched_on[last.assignments[tid]].bbox)
                    <= (2 * StaticJump) * (2 * StaticJump)

\* a static lost track of an instance with a wide search radius saw a frame
\* whose only detection, of its size, was more than 30 px from its last
\* centroid and inside the radius min(0.3 * search_radius, 40): it stayed lost
C13_Witness ==
    /\ cls = "OcclusionTracker"
    /\ ~last.raised
    /\ Len(last.matched_on) = 1
    /\ \E tid \in DOMAIN last.pre :
          /\ last.pre[tid].lost > 0
          /\ last.pre[tid].hits >= Phase2MinHits
          /\ is_static(last.pre[tid])
          /\ JumpSq(last.pre[tid], last.matched_on[1].bbox)
                > (2 * StaticJump) * (2 * StaticJump)
          /\ 12 * 12 * JumpSq(last.pre[tid], last.matched_on[1].bbox)
                <= dynamic_radius(last.pre[tid]) * dynamic_radius(last.pre[tid])
          /\ SizeOf(last.matched_on[1].bbox) = SizeOf(last.pre[tid].bbox)
          /\ tid \notin DOMAIN last.assignments
          /\ last.created # {}

---------------------------------------------------------------------------
(* Geometry: _merge_fragments and iou *)

Area(bbox) == (bbox[3] - bbox[1]) * (bbox[4] - bbox[2])

\* the value iou() returns, inter / (union + 1e-9), is at least num / den
\* (num, den > 0): inter / union must exceed num / den
IouAtLeast(f, num, den) == f.n * den > num * f.d

\* the two detections of a list overlap with IoU >= 0.05, have area ratio
\* above 0.3 and centres closer than 0.8 x the smallest of their four sides
Fragments(detections) ==
    LET a == detections[1].bbox
        b == detections[2].bbox
        ca == bbox_center(a)
        cb == bbox_center(b)
        md == SetMin({a[3] - a[1], a[4] - a[2], b[3] - b[1], b[4] - b[2]})
    IN /\ IouAtLeast(iou(a, b), 1, 20)
       /\ 10 * Min(Area(a), Area(b)) > 3 * Max(Area(a), Area(b))
       \* (|ca - cb| / 2)^2 < (0.8 md)^2, the centres being in half-pixels
       /\ 25 * ((ca[1] - cb[1]) * (ca[1] - cb[1]) + (ca[2] - cb[2]) * (ca[2] - cb[2]))
             < 64 * md * md

---------------------------------------------------------------------------
(* Degenerate detections *)

\* a box of zero or negative width or height
Degenerate(bbox) == bbox[3] - bbox[1] <= 0 \/ bbox[4] - bbox[2] <= 0

\* C15: update() never ends in an error because of a degenerate detection
\* (zero or negative width or height): the call completes, and every track
\* that was there is still there or has been evicted for its lost counter.
C15_DegenerateDetectionNeverRaises ==
    (\E i \in 1..Len(last.detections) : Degenerate(last.detections[i].bbox)) =>
        /\ ~last.raised
        /\ \A tid \in DOMAIN last.pre :
              tid \in DOMAIN tracks \/ tid \in last.deleted

---------------------------------------------------------------------------
(* Phase-2 eligibility *)

\* the last call had one track, lost, and one detection, and every gate of
\* Phase 2 lets the pair through
PassesGates(tid) ==
    /\ ~last.raised
    /\ DOMAIN last.pre = {tid}
    /\ last.pre[tid].lost > 0
    /\ Len(last.detections) = 1
    /\ CASE cls = "OcclusionTracker" ->
              /\ last.pre[tid].lost <= Phase2MaxLost
              /\ LET r == compute_match_score(last.pre[tid], last.detections[1].bbox,
                                              last.corr)
                 IN ~r.raised /\ r.score # 0
                              /\ r.score >= Phase2Threshold(last.pre[tid])
         [] cls = "KalmanTracker" ->
              LET d == mahalanobis_distance(PredictTrack(last.pre[tid]),
                                            last.detections[1].bbox)
              IN d.finite /\ d.value < EffectiveThreshold(last.pre[tid])
         [] OTHER -> FALSE

\* Phase-2 eligibility is "hits >= floor": a track re-identified in Phase 2
\* had at least floor hits, and a lone lost track with at least floor hits
\* whose pair passes the gates is re-identified
EligibleFrom(floor) ==
    /\ \A tid \in Phase2Matched : last.pre[tid].hits >= floor
    /\ \A tid \in DOMAIN last.pre :
          (PassesGates(tid) /\ last.pre[tid].hits >= floor)
              => tid \in Phase2Matched

---------------------------------------------------------------------------
(* The debug option *)

\* the outcomes the last call can have on an instance with self.debug = dbg
Rerun(dbg) ==
    CASE cls = "OcclusionTracker" ->
            { Diagnostics(cls, dbg, OcclusionUpdate(last.pre, last.pre_id,
                                                    last.detections, last.corr,
                                                    self_buffer_frames)) }
      [] cls = "KalmanTracker" ->
            { Diagnostics(cls, dbg, r) :
              r \in KalmanUpdate(last.pre, last.pre_id, last.detections) }

\* what a set of outcomes decides: assignments, track table and id counter
Decisions(outcomes) ==
    { [assignments |-> r.last.assignments, tracks |-> r.tracks,
       next_id |-> r.next_id, raised |-> r.raised] : r \in outcomes }

---------------------------------------------------------------------------
(* iou *)

\* the boxes the last call had before it: those of the tracks and those of
\* the detections, which _match and _merge_fragments pass to iou
BoxesSeen ==
    {last.pre[tid].bbox : tid \in DOMAIN last.pre}
        \cup {last.detections[i].bbox : i \in 1..Len(last.detections)}

\* the boxes share no area
Apart(a, b) == a[3] <= b[1] \/ b[3] <= a[1] \/ a[4] <= b[2] \/ b[4] <= a[2]

\* iou is symmetric, within [0, 1], and 0 for boxes that do not overlap
IouBasics(a, b) ==
    /\ iou(a, b) = iou(b, a)
    /\ iou(a, b).d > 0
    /\ FLeq(Frac(0, 1), iou(a, b))
    /\ FLeq(iou(a, b), Frac(1, 1))
    /\ Apart(a, b) => iou(a, b) = Frac(0, 1)

\* C18 as stated: for all integer boxes a and b, zero-area boxes included,
\* iou(a,b) = iou(b,a), 0 <= iou(a,b) <= 1, iou(a,b) = 0 when the boxes do
\* not overlap, and iou(a,a) = 1.
C18_IouLaws ==
    \A a \in BoxesSeen, b \in BoxesSeen :
        IouBasics(a, b) /\ FEq(iou(a, a), Frac(1, 1))

\* C18, amended: the first three laws hold for all boxes; inter / union of a
\* box with itself is 1 when its area is positive (iou returns
\* area / (area + 1e-9)), and iou(a,a) = 0 for a zero-area box.
C18_IouLawsPositiveArea ==
    \A a \in BoxesSeen, b \in BoxesSeen :
        /\ IouBasics(a, b)
        /\ Area(a) > 0 => FEq(iou(a, a), Frac(1, 1))
        /\ Area(a) = 0 => iou(a, a) = Frac(0, 1)

\* a Tracker holding a track with a zero-area box was given the same box
\* again, next to a box of positive area that one of its tracks already had:
\* the zero-area track found no match (IoU 0) and the other one did (IoU 1)
C18_Witness ==
    /\ cls = "Tracker"
    /\ \E t0 \in DOMAIN last.pre, t1 \in DOMAIN last.pre, i \in 1..2, j \in 1..2 :
          /\ Len(last.detections) = 2
          /\ Area(last.pre[t0].bbox) = 0
          /\ last.detections[i].bbox = last.pre[t0].bbox
          /\ t0 \notin DOMAIN last.assignments
          /\ Area(last.pre[t1].bbox) > 0
          /\ last.detections[j].bbox = last.pre[t1].bbox
          /\ t1 \in DOMAIN last.assignments
          /\ last.assignments[t1] = j
          /\ \E a \in BoxesSeen, b \in BoxesSeen :
                ~Apart(a, b) /\ a # b /\ iou(a, b).n > 0

---------------------------------------------------------------------------
(* The is_static flag *)

\* C19: after any update() call, each track's is_static flag is true exactly
\* when _is_static finds the average frame-to-frame displacement over its
\* last (at most 6) centroids below 3 px.
C19_IsStaticFlagDerived ==
    frame_count > 0 =>
        \A tid \in DOMAIN tracks :
            tracks[tid].is_static = is_static(tracks[tid])

---------------------------------------------------------------------------
(* Detection indices across _merge_fragments *)

\* the detection applied to a track is the one the matcher worked on
Carries(track, det) ==
    /\ track.bbox = det.bbox
    /\ track.confidence = det.conf
    /\ track.centroids[Len(track.centroids)] = bbox_center(det.bbox)

\* C20: in OcclusionTracker.update a detection index returned by _match
\* denotes the same detection when update() reads it: every matched track
\* gets the box and confidence of the post-merge detection _match associated
\* with it, and every track created gets those of the post-merge detection
\* _match left unassigned, also when merging shortened or shifted the list.
C20_IndexDenotesMergedDetection ==
    (cls = "OcclusionTracker" /\ ~last.raised) =>
        /\ \A tid \in DOMAIN last.assignments :
              Carries(tracks[tid], last.matched_on[last.assignments[tid]])
        /\ \A k \in 1 .. Len(Unmatched) :
              /\ last.pre_id + k - 1 \in DOMAIN tracks
              /\ Carries(tracks[last.pre_id + k - 1], last.matched_on[Unmatched[k]])

---------------------------------------------------------------------------
(* The order of the steps of update() *)

\* C21: creation and eviction never happen mid-match.  Within one update()
\* call every Phase-1 and Phase-2 decision concerns a track that existed at
\* the start of the call; matched updates and aging come first, then tracks
\* are created, then expired tracks are removed: an evicted track existed at
\* the start, was unmatched and was aged past the buffer, and a track created
\* in the call is neither matched, aged nor evicted in it (it is in the table
\* afterwards with hits = 1 and lost = 0, under an id no earlier track had).
C21_NoCreationOrEvictionMidMatch ==
    ~last.raised =>
      /\ DOMAIN last.assignments \subseteq Before
      /\ DOMAIN last.phase1 \subseteq Before
      /\ last.created \cap Before = {}
      /\ \A tid \in last.created :
            /\ tid \in DOMAIN tracks
            /\ tid \notin DOMAIN last.assignments
            /\ tid \notin last.deleted
            /\ tid >= last.pre_id
            /\ tracks[tid].hits = 1
            /\ tracks[tid].lost = 0
      /\ \A tid \in last.deleted :
            /\ tid \in Before
            /\ tid \notin DOMAIN last.assignments
            /\ last.pre[tid].lost + 1 > Buffer
      /\ DOMAIN tracks = (Before \cup last.created) \ last.deleted

\* one call matched a track, created another and evicted a third
C21_Witness ==
    /\ ~last.raised
    /\ \E t1 \in Before, t2 \in Before, c \in last.created :
          /\ Matched(t1)
          /\ t2 \in last.deleted
          /\ c \in DOMAIN tracks
          /\ tracks[c].lost = 0

---------------------------------------------------------------------------
(* Chains of fragments *)

\* detections i and j of the last call meet the merge criteria with each other
Linked(i, j) == Fragments(<<last.detections[i], last.detections[j]>>)

\* the bounding box and the highest confidence of all detections of the call
UnionOfAll ==
    LET ds == last.detections
        all == 1..Len(ds)
    IN [bbox |-> << SetMin({ds[k].bbox[1] : k \in all}), SetMin({ds[k].bbox[2] : k \in all}),
                    SetMax({ds[k].bbox[3] : k \in all}), SetMax({ds[k].bbox[4] : k \in all}) >>,
        conf |-> SetMax({ds[k].conf : k \in all})]

\* C22: fragment merging is transitive from the anchor: when the first
\* detection A of three meets the merge criteria with B, B meets them with C
\* and C does not meet them with A, _merge_fragments returns one detection,
\* the bounding box of A, B and C with the highest of the three confidences.
C22_MergeTransitiveFromAnchor ==
    (cls = "OcclusionTracker" /\ ~last.raised /\ Len(last.detections) = 3) =>
        \A b \in 2..3, c \in 2..3 :
            (b # c /\ Linked(1, b) /\ Linked(b, c) /\ ~Linked(1, c))
                => last.matched_on = <<UnionOfAll>>

---------------------------------------------------------------------------
(* The two phases *)

\* C23: in OcclusionTracker and KalmanTracker the two phases partition the
\* work: a track with lost > 0 at the start of update() is never matched by
\* Phase 1, a track with lost = 0 is never matched by Phase 2, Phase 2 only
\* takes detections that Phase 1 left unmatched, and no Phase-1 assignment is
\* overridden by Phase 2.
C23_PhasesPartition ==
    cls \in {"OcclusionTracker", "KalmanTracker"} =>
        /\ \A tid \in DOMAIN last.phase1 :
              /\ last.pre[tid].lost = 0
              /\ tid \in DOMAIN last.assignments
              /\ last.assignments[tid] = last.phase1[tid]
        /\ \A tid \in Phase2Matched :
              /\ last.pre[tid].lost > 0
              /\ \A t1 \in DOMAIN last.phase1 :
                    last.assignments[tid] # last.phase1[t1]

\* one call matched a visible track in Phase 1 and, with the detection that
\* was left, a lost track in Phase 2
C23_Witness ==
    /\ cls \in {"OcclusionTracker", "KalmanTracker"}
    /\ ~last.raised
    /\ \E t1 \in DOMAIN last.phase1, t2 \in Phase2Matched :
          /\ last.pre[t1].lost = 0
          /\ last.pre[t2].lost > 0
          /\ last.assignments[t2] # last.phase1[t1]
          /\ tracks[t2].lost = 0

---------------------------------------------------------------------------
(* The order of the Phase-2 candidates *)

\* the candidates Phase 2 of the last call accepted, as the keys
\* <<score, hits >= 8, -lost, is_static, tid, di>>
Phase2Candidates ==
    Candidates(last.pre,
               Scores(last.pre, {tid \in DOMAIN last.pre : last.pre[tid].lost > 0},
                      last.matched_on,
                      {last.phase1[tid] : tid \in DOMAIN last.phase1}, last.corr))

\* candidate c1 comes before c2 in the stated order: higher score, then the
\* mature track, then the smaller lost count, then the non-static track
StatedBefore(c1, c2) ==
    TupleGreater(<<c1[1], c1[2], c1[3], 1 - c1[4]>>,
                 <<c2[1], c2[2], c2[3], 1 - c2[4]>>, 1)

\* C24: in OcclusionTracker Phase 2 the accepted candidates are committed
\* greedily in the order score, maturity (hits >= 8), smaller lost count,
\* non-static before static: a candidate gets its detection only if every
\* candidate for that detection that comes before it in this order belongs to
\* a track that has been assigned; so with equal score, maturity and lost
\* count the non-static track wins the detection over the static one.
C24_NonStaticWinsTie ==
    (cls = "OcclusionTracker" /\ ~last.raised) =>
        \A c1 \in Phase2Candidates, c2 \in Phase2Candidates :
            (/\ c1[6] = c2[6]
             /\ StatedBefore(c1, c2)
             /\ c2[5] \in Phase2Matched
             /\ last.assignments[c2[5]] = c2[6])
                => c1[5] \in DOMAIN last.assignments

---------------------------------------------------------------------------
(* The radius of the distance gate *)

\* the tracks Phase 2 of the last call scored under the default search
\* radius of 100 px and that _is_static does not classify as static
ScoredMoving ==
    IF cls = "OcclusionTracker" /\ search_radius = DefaultSearchRadius
          /\ ~last.raised /\ last.matched_on # <<>>
    THEN {tid \in DOMAIN last.pre : /\ last.pre[tid].lost > 0
                                    /\ ~is_static(last.pre[tid])}
    ELSE {}

\* the track as it would be after n more missed frames
LostLonger(track, n) == [track EXCEPT !.lost = track.lost + n]

\* C25: for a non-static lost track in OcclusionTracker with search_radius =
\* 100 the radius of the Phase-2 distance gate is 80 px at lost = 1, 100 px at
\* lost = 2, 108 px at lost = 3, 124 px at lost = 5 and 140 px at lost = 10;
\* it never decreases as lost grows and never exceeds 1.4 x search_radius.
C25_RadiusTable ==
    \A tid \in ScoredMoving :
        LET track == last.pre[tid]
            at(n) == dynamic_radius([track EXCEPT !.lost = n])
        IN /\ at(1) = 80 * Tick
           /\ at(2) = 100 * Tick
           /\ at(3) = 108 * Tick
           /\ at(5) = 124 * Tick
           /\ at(10) = 140 * Tick
           /\ dynamic_radius(track) <= dynamic_radius(LostLonger(track, 1))
           /\ 10 * dynamic_radius(track) <= 14 * search_radius * Tick

---------------------------------------------------------------------------
(* KalmanTracker Phase 2 *)

\* the tracks that were lost at the start of the last call and the detection
\* indices Phase 1 left unassigned
LostBefore == {tid \in DOMAIN last.pre : last.pre[tid].lost > 0}
LeftByPhase1 ==
    (1..Len(last.detections)) \ {last.phase1[tid] : tid \in DOMAIN last.phase1}

\* the entry of dist_matrix for lost track tid and detection di in the last call
Gate(tid, di) ==
    Gated(PredictTrack(last.pre[tid]),
          mahalanobis_distance(PredictTrack(last.pre[tid]), last.detections[di].bbox))

\* C26: in KalmanTracker Phase 2, when a lost track with hits >= 2 has an
\* unassigned detection under its gating threshold and no other lost track
\* has a finite-cost candidate for that detection, the track is re-identified
\* (with that detection, when it is the track's only candidate), however many
\* other lost tracks and unassigned detections the frame has: the
\* infeasible-matrix branch never discards such a pair.
C26_ValidPairCommitted ==
    cls = "KalmanTracker" =>
        \A tid \in LostBefore, di \in LeftByPhase1 :
            (/\ last.pre[tid].hits >= KalmanPhase2MinHits
             /\ Gate(tid, di).finite
             /\ \A other \in LostBefore \ {tid} : ~Gate(other, di).finite)
                => /\ tid \in Phase2Matched
                   /\ (\A dj \in LeftByPhase1 \ {di} : ~Gate(tid, dj).finite)
                         => last.assignments[tid] = di

\* the Mahalanobis distance of lost track tid to detection di in the last call
DistanceTo(tid, di) ==
    mahalanobis_distance(PredictTrack(last.pre[tid]), last.detections[di].bbox)

\* C27: in KalmanTracker the relaxed Phase-2 threshold (1.5 x
\* mahalanobis_threshold) is applied only to tracks whose lost counter exceeds
\* 15 at the start of update(); every track present at the start of a call
\* has lost <= max_lost, so with max_lost <= 15 the relaxed threshold is
\* never applied to a track of a reachable state.
C27_RelaxedThresholdUnreachable ==
    cls = "KalmanTracker" =>
        /\ \A tid \in DOMAIN last.pre :
              /\ last.pre[tid].lost <= max_lost
              /\ max_lost <= RelaxAfterLost =>
                    EffectiveThreshold(PredictTrack(last.pre[tid])) = mahalanobis_threshold
              /\ \A n \in 0..(RelaxAfterLost + 1) :
                    (EffectiveThreshold([last.pre[tid] EXCEPT !.lost = n])
                        = (mahalanobis_threshold * 3) \div 2) <=> n > RelaxAfterLost
        /\ \A tid \in DOMAIN tracks :
              /\ tracks[tid].lost <= max_lost
              /\ max_lost <= RelaxAfterLost =>
                    EffectiveThreshold(tracks[tid]) = mahalanobis_threshold

\* a lost track met a detection at a distance between the threshold and
\* 1.5 x the threshold and stayed unmatched
C27_Witness ==
    /\ cls = "KalmanTracker"
    /\ max_lost <= RelaxAfterLost
    /\ \E tid \in LostBefore, di \in LeftByPhase1 :
          /\ last.pre[tid].lost <= max_lost
          /\ last.pre[tid].hits >= KalmanPhase2MinHits
          /\ DistanceTo(tid, di).finite
          /\ DistanceTo(tid, di).value >= mahalanobis_threshold
          /\ 2 * DistanceTo(tid, di).value < 3 * mahalanobis_threshold
          /\ tid \notin DOMAIN last.assignments

---------------------------------------------------------------------------
(* Tracks Phase 2 has given up *)

\* a lost track that Phase 2 skips: fewer than 4 hits, or lost for more than
\* 10 frames
GivenUp(track) ==
    /\ track.lost > 0
    /\ track.hits < Phase2MinHits \/ track.lost > Phase2MaxLost

\* C28: in OcclusionTracker, once a track has lost > 0 while its hits is
\* below 4, or once its lost counter exceeds 10, no later update() matches it,
\* whatever detections arrive: in every call it stays unmatched, its lost
\* counter grows by 1 and its hits stay, so that it is in the same situation
\* before the next call, and it is removed by the call that takes lost past
\* buffer_frames.
C28_GivenUpTrackNeverMatched ==
    (cls = "OcclusionTracker" /\ ~last.raised) =>
        \A tid \in Before :
            GivenUp(last.pre[tid]) =>
                /\ tid \notin DOMAIN last.assignments
                /\ IF last.pre[tid].lost + 1 > self_buffer_frames
                   THEN tid \notin DOMAIN tracks /\ tid \in last.deleted
                   ELSE /\ tid \in DOMAIN tracks
                        /\ tracks[tid].lost = last.pre[tid].lost + 1
                        /\ tracks[tid].hits = last.pre[tid].hits
                        /\ GivenUp(tracks[tid])

\* a track with 4 hits that had been lost for more than 10 frames met a
\* detection of its size at the position predicted for it, which scores above
\* the Phase-2 threshold; it stayed unmatched and went on being lost
C28_Witness ==
    /\ cls = "OcclusionTracker"
    /\ ~last.raised
    /\ \E tid \in Before :
          /\ last.pre[tid].hits >= Phase2MinHits
          /\ last.pre[tid].lost > Phase2MaxLost
          /\ Len(last.detections) = 1
          /\ FromPredicted(tid) = <<0, 0>>
          /\ LET r == compute_match_score(last.pre[tid], last.detections[1].bbox,
                                          last.corr)
             IN r.score >= Phase2Threshold(last.pre[tid])
          /\ tid \notin DOMAIN last.assignments
          /\ tid \in DOMAIN tracks
          /\ tracks[tid].lost = last.pre[tid].lost + 1
          /\ last.created # {}

---------------------------------------------------------------------------
(* The deceleration rule of the speed gate *)

\* the distance, in ticks, of detection di of the last call from the position
\* _compute_match_score predicts for track tid
DistToPredicted(tid, di) ==
    LET track == last.pre[tid]
        predicted_pos == predict_position(track, FramesAhead(track))
        det_center == bbox_center(last.matched_on[di].bbox)
    IN hypot(12 * det_center[1] - predicted_pos[1],
             12 * det_center[2] - predicted_pos[2])

\* track tid was lost with two centroids or more and a previous speed above
\* 5 px/frame, and detection di lies closer to its predicted position than
\* 0.3 x previous speed x frames_ahead
SharpDeceleration(tid, di) ==
    LET track == last.pre[tid]
        nc == Len(track.centroids)
    IN /\ track.lost > 0
       /\ nc >= 2
       /\ PrevSpeed(track.centroids, nc) > 5 * Tick
       /\ 10 * DistToPredicted(tid, di)
             < 3 * PrevSpeed(track.centroids, nc) * FramesAhead(track)

---------------------------------------------------------------------------
(* Phase 1 and the threshold *)

\* the tracks that were visible at the start of the last call and that
\* Phase 1 left unmatched
VisibleLeftByPhase1 ==
    {tid \in DOMAIN last.pre : last.pre[tid].lost = 0 /\ tid \notin DOMAIN last.phase1}

\* the detection indices of the list the matcher worked on that Phase 1 left
\* unassigned
DetsLeftByPhase1 ==
    DOMAIN last.matched_on \ {last.phase1[tid] : tid \in DOMAIN last.phase1}

\* C30: Phase 1 is maximal with respect to the threshold, greedy in
\* OcclusionTracker and Hungarian with post-hoc rejection in KalmanTracker:
\* after Phase 1 no visible track it left unmatched and detection it left
\* unmatched have IoU >= iou_threshold, so the Hungarian variant leaves no
\* pair unmatched that the greedy variant would have committed.
C30_Phase1Maximal ==
    (cls \in {"OcclusionTracker", "KalmanTracker"} /\ ~last.raised) =>
        \A tid \in VisibleLeftByPhase1 : \A di \in DetsLeftByPhase1 :
            FLess(iou(last.pred[tid], last.matched_on[di].bbox), iou_threshold)

====
